---- MODULE Spec2Model ----
(***************************************************************************)
(* Block server of src/src/petals/server/backend.py: TransformerBackend    *)
(* (inference_step and its cache helpers), merge_inference_pools_inplace   *)
(* and _MergedInferenceStep.                                               *)
(*                                                                         *)
(* Tensors.  hidden_states [batch, seq, hidden] is a sequence of rows, one *)
(* per batch entry, each a sequence over the sequence axis; the hidden     *)
(* vector of one position is one number in 0..Modulus-1, and "+=" is       *)
(* addition modulo Modulus.  A key cache [batch, heads, head_dim, length]  *)
(* and a value cache [batch, heads, length, head_dim] are nested sequences *)
(* indexed in that order.  Python's 0-based half-open slice [a:b) is the   *)
(* 1-based SubSeq(s, a + 1, b).                                            *)
(***************************************************************************)
EXTENDS Integers, Sequences, FiniteSets, TLC

\* ------------------------------------------------------------------ bounds
Modulus == 3            \* values of one tensor element
MaxShortLen == 3        \* short sequence lengths 0..MaxShortLen
MaxChunks == 2          \* long sequence lengths around k * chunk_size, k <= MaxChunks
MaxLength == 3          \* max_length of the session's cache tensors
MaxBlocks == 2          \* entries of one merged step, 0..MaxBlocks
MaxMerges == 1          \* calls of merge_inference_pools_inplace
MaxCacheOps == 2        \* calls of the cache helpers on one session's cache
MaxShutdowns == 2       \* calls of shutdown on one backend
MaxPolicyOps == 2       \* reads of and assignments to one policy
MantissaBits == 8       \* significant bits of a float (Python's float has 53)
MaxTasks == 3           \* tasks submitted to the task pools
MaxAllocs == 3          \* allocate calls on the cache allocator

\* ------------------------------------------------------- program constants
chunk_size == 512       \* backend.py:133
dtype_bytes == 2        \* backend.py:72, get_size_in_bytes of a 16-bit backend_dtype
head_dim == 2           \* backend.py:96, hidden_size // num_attention_heads
shard_num_heads == <<2, 1>>                   \* backend.py:73-77, one entry per device
ChunkBudgets == {16, 268435456}               \* backend.py:52, max_chunk_size_bytes

None == "None"
UIDs == {"block0", "block1"}                  \* the blocks this server hosts
Min(a, b) == IF a < b THEN a ELSE b
Max(a, b) == IF a > b THEN a ELSE b
MaxOf(S) == CHOOSE m \in S : \A x \in S : x <= m
SeqRange(q) == {q[k] : k \in 1..Len(q)}

\* --------------------------------------------------------------- tensors
\* size(0) and size(1) of a [batch, seq, hidden] tensor
BatchOf(t) == Len(t)
SeqLenOf(t) == IF Len(t) = 0 THEN 0 ELSE Len(t[1])

\* t[:, a:b, :]
SliceSeq(t, a, b) == [r \in 1..Len(t) |-> SubSeq(t[r], a + 1, b)]

\* torch.cat(chunks, dim=1) of a non-empty list
RECURSIVE CatRow(_, _)
CatRow(chunks, r) ==
    IF chunks = <<>> THEN <<>> ELSE Head(chunks)[r] \o CatRow(Tail(chunks), r)
CatSeq(chunks) == [r \in 1..Len(chunks[1]) |-> CatRow(chunks, r)]

\* The requests' hidden states: batch B, length L, contents fixed by a seed.
Seeds == {0, 1}
BatchSizes == {1, 2}
Pattern(B, L, a) == [r \in 1..B |-> [j \in 1..L |-> (a + r + j) % Modulus]]
ShortLens == 0..MaxShortLen
LongLens == {k * chunk_size + d : k \in 1..MaxChunks, d \in {-1, 0, 1}}
Lens == ShortLens \cup LongLens

\* ------------------------------------------------------------ the block
\* self.module.forward(chunk, use_cache=True) of block uid.  The block is
\* causal attention: the output at a position aggregates the layer past and
\* every position of the call's input up to it.  It returns the output and the
\* new key/value entries (one per input position); the past of the call is
\* whatever the caller hands over as layer_past.
Weight(uid) == IF uid = "block0" THEN 1 ELSE 2

RECURSIVE Scan(_, _, _, _)
Scan(row, lo, hi, acc) ==
    IF lo > hi THEN <<>>
    ELSE IF lo = hi THEN << (acc + row[lo]) % Modulus >>
    ELSE LET mid == (lo + hi) \div 2
         IN  \* the left half is bound as a value: it is computed once
             CHOOSE out \in {left \o Scan(row, mid + 1, hi, left[Len(left)]) :
                                left \in {Scan(row, lo, mid, acc)}} : TRUE

RECURSIVE SumSeq(_, _, _)
SumSeq(row, lo, hi) ==
    IF lo > hi THEN 0
    ELSE IF lo = hi THEN row[lo] % Modulus
    ELSE LET mid == (lo + hi) \div 2
         IN  (SumSeq(row, lo, mid) + SumSeq(row, mid + 1, hi)) % Modulus

\* output rows of the block on `chunk` with layer past `past` (rows of past inputs)
BlockOutput(uid, past, chunk) ==
    [r \in 1..Len(chunk) |->
        \* the row and the sum over the past are bound as values
        CHOOSE out \in {Scan(row, 1, Len(row), acc) :
                            row \in {chunk[r]},
                            acc \in {(Weight(uid) + SumSeq(past[r], 1, Len(past[r])))
                                        % Modulus}} : TRUE]

\* the key/value entry the block computes for one input position
NewKV(uid, x) == (x + Weight(uid)) % Modulus

NoPast(chunk) == [r \in 1..Len(chunk) |-> <<>>]

\* ------------------------------------------------------------------ state
VARIABLES
    \* configuration of the backends (TransformerBackend.__init__)
    max_chunk_size_bytes,
    \* the backends and the task pools
    backends,               \* uid -> [inference_pool, forward_pool, backward_pool]
    pools,                  \* the pool objects, by identity: [name, fn, uids, alive]
    gpc,                    \* merge_inference_pools_inplace: "idle", "loop", "done", "raised"
    g_backends,             \* its argument: the uids of the mapping, in order
    g_idx,                  \* the position of its loop
    merged_pool,            \* the pool it built
    pools_at_merge,         \* history: backends when it was called
    \* one call of _MergedInferenceStep.__call__
    mpc,                    \* "idle", "assert", "loop", "in_block", "done", "raised"
    m_fn,                   \* the pool whose merged step function runs
    m_hidden_states,        \* its local hidden_states
    m_hypo_ids,
    inference_infos,
    optional_prompts,
    m_idx,                  \* the position of its loop
    caller_hidden,          \* the tensor object the caller passed in
    caller_input,           \* history: its value at the call
    aliased,                \* m_hidden_states is still the caller's tensor object
    m_result,               \* the returned tensor
    m_returns,              \* history: how often the call returned
    m_error,
    m_log,                  \* history: [uid, input, output] of each inference_step call
    \* one activation of TransformerBackend.inference_step
    ipc,                    \* "idle", "loop", "returned", "raised"
    via,                    \* who called it: "direct" (its own pool) or "merged"
    self_uid,               \* the backend whose inference_step runs
    hidden_states,          \* its argument
    hypo_ids,
    inference_info,
    n_chunks,
    i,                      \* the loop variable of backend.py:137
    output_chunks,
    chunk_ranges,           \* history: <<start_idx, end_idx>> of every module.forward call
    output_hidden_states,   \* the returned tensor
    cache_at_call,          \* history: the session's cache when the step was called
    \* the session's attention cache tensors (key, value per device shard)
    cache_tensors,
    cache_op,               \* history: the last cache helper call and its arguments
    cache_ops,              \* history: the number of cache helper calls
    \* the model configuration of the backends (PretrainedConfig)
    config,
    \* one call of _estimate_max_chunk_length
    est_call,               \* history: its arguments, its result or its exception
    \* forward and backward
    tpc,                    \* "idle", "forward", "backward"
    t_call,                 \* the running call: backend, inputs, adapter
    active_adapter,         \* the adapter the peft module has switched on
    t_outputs,              \* what the call returns
    \* the weights and shutdown
    params,                 \* uid -> the parameters of self.module: [device, data]
    spc,                    \* uid -> shutdown: "idle", "cleared", "loop", "raised"
    s_idx,                  \* uid -> the position of its loop over the parameters
    shutdowns,              \* uid -> the number of shutdown calls that returned
    after_first,            \* history: uid -> the backend's state after the first one
    released_alive,         \* history: uid -> pools alive when a weight was released
    \* the placement policy
    policy,
    policy_op,              \* history: the last operation on it and its outcome
    policy_ops,
    \* get_inference_cache_descriptors
    descr_call,             \* history: its arguments and the list it returned
    \* the caller of the merged step
    m_prev,                 \* the inputs and the outcome it kept of its first call
    \* the caller of merge_inference_pools_inplace
    alive_at_merge,         \* history: the pools that were alive at the call
    \* the tasks of the task pools
    now,                    \* the clock the arrival timestamps are read from
    tasks,                  \* every task submitted, with its future, by submission
    batches,                \* history: every batch dispatched
    closed,                 \* the pools that have been shut down
    \* the attention cache allocator
    arena_policy,           \* the placement policy it was built with
    free,                   \* tier -> the free capacity of the tier
    handles,                \* every handle issued: its regions per tier, live or released
    calls                   \* every allocate call: its arguments, its state, its outcome

configVars == <<max_chunk_size_bytes, config>>
estVars == <<est_call>>
trainVars == <<tpc, t_call, active_adapter, t_outputs>>
weightVars == <<params, spc, s_idx, shutdowns, after_first, released_alive>>
policyVars == <<policy, policy_op, policy_ops>>
descrVars == <<descr_call>>
replayVars == <<m_prev>>
histVars == <<alive_at_merge>>
taskVars == <<now, tasks, batches, closed>>
arenaVars == <<arena_policy, free, handles, calls>>
restVars == <<histVars, taskVars, arenaVars>>
otherVars == <<restVars, configVars, estVars, trainVars, weightVars, policyVars, descrVars,
               replayVars>>
poolVars == <<backends, pools, gpc, g_backends, g_idx, merged_pool, pools_at_merge>>
mergedVars == <<mpc, m_fn, m_hidden_states, m_hypo_ids, inference_infos, optional_prompts,
                m_idx, caller_hidden, caller_input, aliased, m_result, m_returns, m_error,
                m_log>>
stepVars == <<ipc, via, self_uid, hidden_states, hypo_ids, inference_info, n_chunks, i,
              output_chunks, chunk_ranges, output_hidden_states, cache_at_call>>
cacheVars == <<cache_tensors, cache_op, cache_ops>>
vars == <<otherVars, poolVars, mergedVars, stepVars, cacheVars>>

\* ------------------------------------------- the block in inference_step
\* the block remembers the positions of the call before: a second call with the
\* same input attends to them as its past
ModuleForward_Stateful(uid, chunk) ==
    BlockOutput(uid, IF m_prev.kept THEN chunk ELSE NoPast(chunk), chunk)

\* backend.py:143-144: no layer_past is passed, and only element [0] of the
\* result (the output) is kept.
ModuleForward(uid, chunk) == BlockOutput(uid, NoPast(chunk), chunk)

\* ------------------------------------------------------- the attention cache
\* The session's cache: for each device shard a key tensor
\* [batch, heads, head_dim, max_length] and a value tensor
\* [batch, heads, max_length, head_dim] (backend.py:102-104), at positions
\* 2s-1 and 2s of cache_tensors.  The session's batch is CacheBatch, the largest batch of a request.
NumShards == Len(shard_num_heads)
CacheBatch == MaxOf(BatchSizes)
ShardOf(k) == (k + 1) \div 2
IsKey(k) == k % 2 = 1

\* the contents of the session's cache, fixed by a seed: no two batch rows,
\* heads or positions of a tensor hold the same entries
CachePattern(a) ==
    [k \in 1..(2 * NumShards) |->
        LET H == shard_num_heads[ShardOf(k)]
            f(b, h, d, t) == (a + k + b + h + d + t) % Modulus
        IN  IF IsKey(k)
            THEN [b \in 1..CacheBatch |-> [h \in 1..H |-> [d \in 1..head_dim |->
                    [t \in 1..MaxLength |-> f(b, h, d, t)]]]]
            ELSE [b \in 1..CacheBatch |-> [h \in 1..H |-> [t \in 1..MaxLength |->
                    [d \in 1..head_dim |-> f(b, h, d, t)]]]]]

\* new_kvs as module.forward returns them for a total length n: per shard a key
\* [batch * heads, head_dim, n] and a value [batch * heads, n, head_dim]
NewKVs(a, n) ==
    [k \in 1..(2 * NumShards) |->
        LET H == shard_num_heads[ShardOf(k)]
        IN  IF IsKey(k)
            THEN [bh \in 1..(CacheBatch * H) |-> [d \in 1..head_dim |->
                    [t \in 1..n |-> (a + 2 * k + bh + 2 * d + 2 * t) % Modulus]]]
            ELSE [bh \in 1..(CacheBatch * H) |-> [t \in 1..n |->
                    [d \in 1..head_dim |-> (a + 2 * k + bh + 2 * d + 2 * t) % Modulus]]]]

\* petals.utils.misc.is_dummy: the identity marker is a tensor with no elements
is_dummy(h) == Len(h) = 0

\* all hypo_ids of a batch of B rows: the dummy, or a source row per row
HypoIds(B) == {<<>>} \cup [1..B -> 0..(B - 1)]

\* the dummy taken for "every row from row 0"
reorder_cache_inplace_NoDummy(cache, hypo) ==
    [k \in 1..Len(cache) |->
        [b \in 1..Len(cache[k]) |-> cache[k][(IF b <= Len(hypo) THEN hypo[b] ELSE 0) + 1]]]

\* backend.py:163-167.  cache_tensor[hypo_ids] gathers into a new tensor, which
\* is then copied over cache_tensor.
reorder_cache_inplace(cache, hypo) ==
    IF ~is_dummy(hypo)
    THEN [k \in 1..Len(cache) |-> [b \in 1..Len(cache[k]) |-> cache[k][hypo[b] + 1]]]
    ELSE cache

\* the cache tensors the reorder reads and writes
ReorderTouched(cache, hypo) == IF ~is_dummy(hypo) THEN 1..Len(cache) ELSE {}

\* backend.py:169-178: the first prefix_length positions of every tensor, batch
\* and heads flattened into one axis (row (b, h) at b * heads + h, 0-based)
select_layer_past(cache, prefix_length) ==
    [k \in 1..Len(cache) |->
        LET B == Len(cache[k])
            H == Len(cache[k][1])
            T == IF IsKey(k) THEN Len(cache[k][1][1][1]) ELSE Len(cache[k][1][1])
            p == Min(prefix_length, T)
            row(bh) == cache[k][((bh - 1) \div H) + 1][((bh - 1) % H) + 1]
        IN  IF IsKey(k)
            THEN [bh \in 1..(B * H) |-> [d \in 1..head_dim |-> SubSeq(row(bh)[d], 1, p)]]
            ELSE [bh \in 1..(B * H) |-> SubSeq(row(bh), 1, p)]]

\* backend.py:184: new_length is the last axis of the first new key
NewLength(new_kvs) == Len(new_kvs[1][1][1])

\* The slice assignment x[..., a:b] = y[..., a:b] of backend.py:187, 190 needs
\* both slices of one size (or a source slice of size 1, which broadcasts).
CacheLength(cache) == Len(cache[1][1][1][1])
SliceSize(a, b, len) == Max(0, Min(b, len) - Min(a, len))
UpdateFits(cache, new_kvs, prefix_length) ==
    LET n == NewLength(new_kvs)
        dst == SliceSize(prefix_length, n, CacheLength(cache))
        src == SliceSize(prefix_length, n, n)
    IN  dst = src \/ src = 1

\* the whole of the new tensors copied, the prefix included
update_cache_inplace_FromZero(cache, new_kvs, prefix_length) ==
    LET new_length == NewLength(new_kvs)
        T == CacheLength(cache)
        written(t) == t <= Min(new_length, T)
    IN  [k \in 1..Len(cache) |->
            LET H == Len(cache[k][1])
                new(b, h) == new_kvs[k][(b - 1) * H + h]
            IN  IF IsKey(k)
                THEN [b \in 1..Len(cache[k]) |-> [h \in 1..H |-> [d \in 1..head_dim |->
                        [t \in 1..T |-> IF written(t) THEN new(b, h)[d][t]
                                        ELSE cache[k][b][h][d][t]]]]]
                ELSE [b \in 1..Len(cache[k]) |-> [h \in 1..H |-> [t \in 1..T |->
                        IF written(t) THEN new(b, h)[t] ELSE cache[k][b][h][t]]]]]

\* backend.py:180-190: keys, then values; new tensors viewed as
\* [batch, heads, ...], positions [prefix_length, new_length) copied.
update_cache_inplace(cache, new_kvs, prefix_length) ==
    LET new_length == NewLength(new_kvs)
        T == CacheLength(cache)
        written(t) == prefix_length < t /\ t <= Min(new_length, T)
    IN  [k \in 1..Len(cache) |->
            LET H == Len(cache[k][1])
                new(b, h) == new_kvs[k][(b - 1) * H + h]
            IN  IF IsKey(k)
                THEN [b \in 1..Len(cache[k]) |-> [h \in 1..H |-> [d \in 1..head_dim |->
                        [t \in 1..T |-> IF written(t) THEN new(b, h)[d][t]
                                        ELSE cache[k][b][h][d][t]]]]]
                ELSE [b \in 1..Len(cache[k]) |-> [h \in 1..H |-> [t \in 1..T |->
                        IF written(t) THEN new(b, h)[t] ELSE cache[k][b][h][t]]]]]

NoCacheOp ==
    [op |-> "none", before |-> <<>>, hypo |-> <<>>, new_kvs |-> <<>>, prefix_length |-> 0,
     touched |-> {}, result |-> <<>>, raised |-> FALSE]

\* ------------------------------------------------------------ construction
\* backend.py:59-69: every backend builds its inference, forward and backward
\* pool, none of them started.  Pools are objects; their identity is their
\* position in `pools`.
UidSeq == <<"block0", "block1">>
UidIndex(uid) == CHOOSE k \in 1..Len(UidSeq) : UidSeq[k] = uid
MaxBatchSizeOf(uid) == 2 * UidIndex(uid)      \* forward_pool.max_batch_size
NewPool(name, fn, uids, mbs, device) ==
    [name |-> name, fn |-> fn, uids |-> uids, max_batch_size |-> mbs, device |-> device,
     alive |-> FALSE]
\* the inference pool is built with twice the forward pool's max_batch_size
BackendPools_WiderInference(uid) ==
    << NewPool(uid, "inference_step", <<uid>>, 2 * MaxBatchSizeOf(uid), uid),
       NewPool(uid, "forward", <<uid>>, MaxBatchSizeOf(uid), uid),
       NewPool(uid, "backward", <<uid>>, MaxBatchSizeOf(uid), uid) >>
BackendPools(uid) ==
    << NewPool(uid, "inference_step", <<uid>>, MaxBatchSizeOf(uid), uid),
       NewPool(uid, "forward", <<uid>>, MaxBatchSizeOf(uid), uid),
       NewPool(uid, "backward", <<uid>>, MaxBatchSizeOf(uid), uid) >>
InitPools == BackendPools(UidSeq[1]) \o BackendPools(UidSeq[2])
InitBackends ==
    [uid \in UIDs |->
        [inference_pool |-> 3 * (UidIndex(uid) - 1) + 1,
         forward_pool |-> 3 * (UidIndex(uid) - 1) + 2,
         backward_pool |-> 3 * (UidIndex(uid) - 1) + 3]]

NoTensor == <<>>
NoInfo == [uid |-> None, prefix_length |-> 0]
IdleStep ==
    /\ ipc = "idle" /\ via = None /\ self_uid = None /\ hidden_states = NoTensor
    /\ hypo_ids = <<>> /\ inference_info = NoInfo /\ n_chunks = 0 /\ i = 0
    /\ output_chunks = <<>> /\ chunk_ranges = <<>> /\ output_hidden_states = NoTensor
    /\ cache_at_call = <<>>
IdleMerged ==
    /\ mpc = "idle" /\ m_fn = 0 /\ m_hidden_states = NoTensor /\ m_hypo_ids = <<>>
    /\ inference_infos = <<>> /\ optional_prompts = <<>> /\ m_idx = 0
    /\ caller_hidden = NoTensor /\ caller_input = NoTensor /\ aliased = FALSE
    /\ m_result = NoTensor /\ m_returns = 0 /\ m_error = None /\ m_log = <<>>

\* config: num_key_value_groups and, for the models that have the attribute,
\* num_key_value_heads (backend.py:99-101)
DefaultConfig ==
    [num_key_value_groups |-> 1, has_num_key_value_heads |-> FALSE, num_key_value_heads |-> 0]
Configs ==
    {DefaultConfig,
     [num_key_value_groups |-> 2, has_num_key_value_heads |-> FALSE, num_key_value_heads |-> 0],
     [num_key_value_groups |-> 2, has_num_key_value_heads |-> TRUE, num_key_value_heads |-> 1]}

\* the parameters of a block: on the accelerator, on the host, or meta
\* (declared, never loaded)
NewParam(device) == [device |-> device, data |-> IF device = "meta" THEN "none" ELSE "weights"]
DefaultLayout == <<NewParam("cuda"), NewParam("cuda")>>
Layouts ==
    {DefaultLayout, <<NewParam("cuda"), NewParam("meta")>>, <<NewParam("cpu"), NewParam("cuda")>>}

NoEst == [called |-> FALSE, batch_size |-> 0, seq_length |-> 0, prefix_length |-> 0,
          result |-> 0, error |-> None]
NoTrainCall == [uid |-> None, inputs |-> NoTensor, active_adapter |-> None, previous |-> None]
NoShutdownState == [pools |-> <<>>, params |-> <<>>]
NoPolicy == [constructed |-> FALSE]
NoPolicyOp == [op |-> "none", field |-> None, result |-> None, error |-> None,
               before |-> NoPolicy]
NoDescr == [called |-> FALSE, batch_size |-> 0, max_length |-> 0, result |-> <<>>]
NoPrev == [kept |-> FALSE]

\* the arena of the cache allocator: the capacity of every tier, and the
\* cache percentages of the placement policies it is built with (the disk
\* share is the remainder)
Tiers == {"gpu", "cpu", "disk"}
Capacity == [gpu |-> 4, cpu |-> 2, disk |-> 2]
CachePolicies ==
    {[cache_gpu_percent |-> 50, cache_cpu_percent |-> 50],
     [cache_gpu_percent |-> 50, cache_cpu_percent |-> 25]}

\* the state after construction of the backends, for the byte ceilings, the
\* model configurations and the weight layouts given
InitOf(budgets, configs, layouts) ==
    /\ max_chunk_size_bytes \in budgets
    /\ config \in configs
    /\ backends = InitBackends
    /\ pools = InitPools
    /\ gpc = "idle" /\ g_backends = <<>> /\ g_idx = 0 /\ merged_pool = 0
    /\ pools_at_merge = InitBackends
    /\ alive_at_merge = {}
    /\ now = 0 /\ tasks = <<>> /\ batches = <<>> /\ closed = {}
    /\ arena_policy \in CachePolicies
    /\ free = Capacity /\ handles = <<>> /\ calls = <<>>
    /\ IdleMerged
    /\ IdleStep
    /\ cache_tensors = CachePattern(0)
    /\ cache_op = NoCacheOp
    /\ cache_ops = 0
    /\ est_call = NoEst
    /\ tpc = "idle" /\ t_call = NoTrainCall /\ active_adapter = "" /\ t_outputs = NoTensor
    /\ params \in [UIDs -> layouts]
    /\ spc = [uid \in UIDs |-> "idle"]
    /\ s_idx = [uid \in UIDs |-> 0]
    /\ shutdowns = [uid \in UIDs |-> 0]
    /\ after_first = [uid \in UIDs |-> NoShutdownState]
    /\ released_alive = [uid \in UIDs |-> {}]
    /\ policy = NoPolicy
    /\ policy_op = NoPolicyOp
    /\ policy_ops = 0
    /\ descr_call = NoDescr
    /\ m_prev = NoPrev

Init == InitOf(ChunkBudgets, {DefaultConfig}, {DefaultLayout})

\* --------------------------------------------------------------- the pools
\* PrioritizedTaskPool.start(): the pool's process runs, is_alive() is true
PoolStart(pid) ==
    /\ ~pools[pid].alive
    /\ pools' = [pools EXCEPT ![pid].alive = TRUE]
    /\ UNCHANGED <<backends, gpc, g_backends, g_idx, merged_pool, pools_at_merge>>
    /\ UNCHANGED <<otherVars, mergedVars, stepVars, cacheVars>>

\* the mappings merge_inference_pools_inplace is called on: uids in dict order
Mappings ==
    {<<>>} \cup {<<u>> : u \in UIDs} \cup {m \in UIDs \X UIDs : m[1] # m[2]}

\* backend.py:212-220: the assert on the mapping, first_pool, the merged pool;
\* first_pool.max_batch_size raises AttributeError on a backend after shutdown,
\* whose inference_pool is None (0 here)
MergeCall(mapping) ==
    /\ gpc # "loop"
    /\ Len(pools) < Len(InitPools) + MaxMerges
    /\ g_backends' = mapping
    /\ pools_at_merge' = backends
    /\ alive_at_merge' = {pid \in 1..Len(pools) : pools[pid].alive}
    /\ IF Len(mapping) = 0 \/ backends[mapping[1]].inference_pool = 0
       THEN /\ gpc' = "raised"
            /\ UNCHANGED <<pools, merged_pool, g_idx>>
       ELSE LET first_pool == pools[backends[mapping[1]].inference_pool]
            IN  /\ pools' = Append(pools,
                        NewPool("merged_inference", "merged", mapping,
                                first_pool.max_batch_size, first_pool.device))
                /\ merged_pool' = Len(pools) + 1
                /\ g_idx' = 1
                /\ gpc' = "loop"
    /\ UNCHANGED backends
    /\ UNCHANGED <<taskVars, arenaVars, configVars, estVars, trainVars, weightVars, policyVars,
                   descrVars, replayVars>>
    /\ UNCHANGED <<mergedVars, stepVars, cacheVars>>

\* only the first backend of the mapping is given the merged pool
MergeStep_FirstOnly ==
    /\ gpc = "loop"
    /\ g_idx <= Len(g_backends)
    /\ LET backend == g_backends[g_idx]
       IN  IF \/ backends[backend].inference_pool = 0
              \/ pools[backends[backend].inference_pool].alive
           THEN /\ gpc' = "raised"
                /\ UNCHANGED <<backends, g_idx>>
           ELSE /\ backends' = IF g_idx = 1
                               THEN [backends EXCEPT ![backend].inference_pool = merged_pool]
                               ELSE backends
                /\ g_idx' = g_idx + 1
                /\ UNCHANGED gpc
    /\ UNCHANGED <<pools, g_backends, merged_pool, pools_at_merge>>
    /\ UNCHANGED <<otherVars, mergedVars, stepVars, cacheVars>>

\* backend.py:221-223: one iteration of the loop over backends.values(); the
\* assert raises, on a pool that is alive and on the None of a backend after
\* shutdown
MergeStep ==
    /\ gpc = "loop"
    /\ g_idx <= Len(g_backends)
    /\ LET backend == g_backends[g_idx]
       IN  IF \/ backends[backend].inference_pool = 0
              \/ pools[backends[backend].inference_pool].alive
           THEN /\ gpc' = "raised"
                /\ UNCHANGED <<backends, g_idx>>
           ELSE /\ backends' = [backends EXCEPT ![backend].inference_pool = merged_pool]
                /\ g_idx' = g_idx + 1
                /\ UNCHANGED gpc
    /\ UNCHANGED <<pools, g_backends, merged_pool, pools_at_merge>>
    /\ UNCHANGED <<otherVars, mergedVars, stepVars, cacheVars>>

\* backend.py:221: the loop is over, the function returns
MergeReturn ==
    /\ gpc = "loop"
    /\ g_idx > Len(g_backends)
    /\ gpc' = "done"
    /\ UNCHANGED <<backends, pools, g_backends, g_idx, merged_pool, pools_at_merge>>
    /\ UNCHANGED <<otherVars, mergedVars, stepVars, cacheVars>>

\* ------------------------------------------- TransformerBackend.inference_step
\* the hypo_ids a request carries: the dummy, or a source row (0-based) per row
Reversed(B) == [r \in 1..B |-> B - r]
FirstRow(B) == [r \in 1..B |-> 0]
StepHypoIds(B) == {<<>>, Reversed(B), FirstRow(B)}

\* the chunk count rounded down: a last, shorter chunk is never processed
StepBegin_RoundedDown(uid, hs, hypo, info, caller) ==
    /\ ipc' = "loop"
    /\ via' = caller
    /\ self_uid' = uid
    /\ hidden_states' = hs
    /\ hypo_ids' = hypo
    /\ inference_info' = info
    /\ n_chunks' = Max(1, SeqLenOf(hs) \div chunk_size)
    /\ i' = 0
    /\ output_chunks' = <<>>
    /\ chunk_ranges' = <<>>
    /\ output_hidden_states' = NoTensor
    /\ cache_at_call' = cache_tensors

\* the chunk count one more than the full chunks: a length that is a multiple
\* of chunk_size gets a last, empty chunk
StepBegin_ExtraChunk(uid, hs, hypo, info, caller) ==
    /\ ipc' = "loop"
    /\ via' = caller
    /\ self_uid' = uid
    /\ hidden_states' = hs
    /\ hypo_ids' = hypo
    /\ inference_info' = info
    /\ n_chunks' = SeqLenOf(hs) \div chunk_size + 1
    /\ i' = 0
    /\ output_chunks' = <<>>
    /\ chunk_ranges' = <<>>
    /\ output_hidden_states' = NoTensor
    /\ cache_at_call' = cache_tensors

\* backend.py:125-135: entry of inference_step up to the loop
StepBegin(uid, hs, hypo, info, caller) ==
    /\ ipc' = "loop"
    /\ via' = caller
    /\ self_uid' = uid
    /\ hidden_states' = hs
    /\ hypo_ids' = hypo
    /\ inference_info' = info
    /\ n_chunks' = (SeqLenOf(hs) + chunk_size - 1) \div chunk_size
    /\ i' = 0
    /\ output_chunks' = <<>>
    /\ chunk_ranges' = <<>>
    /\ output_hidden_states' = NoTensor
    /\ cache_at_call' = cache_tensors

\* the caller has taken the result (or the exception): the activation is gone
StepEnd ==
    /\ ipc' = "idle" /\ via' = None /\ self_uid' = None /\ hidden_states' = NoTensor
    /\ hypo_ids' = <<>> /\ inference_info' = NoInfo /\ n_chunks' = 0 /\ i' = 0
    /\ output_chunks' = <<>> /\ chunk_ranges' = <<>> /\ output_hidden_states' = NoTensor
    /\ cache_at_call' = <<>>

\* The backend's own inference pool (or any caller) runs inference_step.
StepCall(uid, hs, hypo, prefix_length) ==
    /\ ipc = "idle"
    /\ mpc = "idle"
    /\ StepBegin(uid, hs, hypo, [uid |-> uid, prefix_length |-> prefix_length], "direct")
    /\ UNCHANGED <<otherVars, poolVars, mergedVars, cacheVars>>

\* backend.py:137-147: one iteration of the chunk loop
StepChunk ==
    /\ ipc = "loop"
    /\ i < n_chunks
    /\ LET start_idx == i * chunk_size
           end_idx == Min((i + 1) * chunk_size, SeqLenOf(hidden_states))
           chunk == SliceSeq(hidden_states, start_idx, end_idx)
           output_chunk == ModuleForward(self_uid, chunk)
       IN  /\ output_chunks' = Append(output_chunks, output_chunk)
           /\ chunk_ranges' = Append(chunk_ranges, <<start_idx, end_idx>>)
    /\ i' = i + 1
    /\ UNCHANGED <<ipc, via, self_uid, hidden_states, hypo_ids, inference_info, n_chunks,
                   output_hidden_states, cache_at_call>>
    /\ UNCHANGED <<otherVars, poolVars, mergedVars, cacheVars>>

\* backend.py:150-153: torch.cat and return; torch.cat of an empty list raises
StepFinish ==
    /\ ipc = "loop"
    /\ i >= n_chunks
    /\ IF output_chunks = <<>>
       THEN /\ ipc' = "raised"
            /\ UNCHANGED output_hidden_states
       ELSE /\ ipc' = "returned"
            /\ output_hidden_states' = CatSeq(output_chunks)
    /\ UNCHANGED <<via, self_uid, hidden_states, hypo_ids, inference_info, n_chunks, i,
                   output_chunks, chunk_ranges, cache_at_call>>
    /\ UNCHANGED <<otherVars, poolVars, mergedVars, cacheVars>>

\* the pool takes the result, or the exception, of its call
StepReturn ==
    /\ ipc \in {"returned", "raised"}
    /\ via = "direct"
    /\ StepEnd
    /\ UNCHANGED <<otherVars, poolVars, mergedVars, cacheVars>>

\* ------------------------------------------- _MergedInferenceStep.__call__
\* an optional prompt [batch, P, hidden]: None (here the tensor of no rows), or
\* a tensor without zero entries
NoPrompt == <<>>
PromptLens == {1, 2}
Prompt(B, P) == [r \in 1..B |-> [j \in 1..P |-> 1 + ((r + j) % (Modulus - 1))]]
Prompts(B) == {NoPrompt} \cup {Prompt(B, P) : P \in PromptLens}
Infos == [uid : UIDs, prefix_length : {0}]
SeqsUpTo(S, n) == UNION {[1..k -> S] : k \in 0..n}

\* backend.py:244: hidden_states[:, :P] += optional_prompt needs the slice to
\* be P long (or P = 1, which broadcasts)
PromptFits(hs, prompt) ==
    Min(SeqLenOf(prompt), SeqLenOf(hs)) = SeqLenOf(prompt) \/ SeqLenOf(prompt) = 1
\* the prompt's first position added to the positions after the prompt as well
AddPrompt_Broadcast(hs, prompt) ==
    [r \in 1..Len(hs) |->
        [j \in 1..Len(hs[r]) |->
            IF j <= SeqLenOf(prompt) THEN (hs[r][j] + prompt[r][j]) % Modulus
            ELSE (hs[r][j] + prompt[r][1]) % Modulus]]
AddPrompt(hs, prompt) ==
    [r \in 1..Len(hs) |->
        [j \in 1..Len(hs[r]) |->
            IF j <= SeqLenOf(prompt) THEN (hs[r][j] + prompt[r][j]) % Modulus
            ELSE hs[r][j]]]

\* the pool calls its merged step function with one batch
MergedCall(fn, hs, hypo, infos, prompts) ==
    /\ mpc = "idle"
    /\ ipc = "idle"
    /\ gpc # "loop"
    /\ pools[fn].fn = "merged"
    /\ mpc' = "assert"
    /\ m_fn' = fn
    /\ m_hidden_states' = hs
    /\ m_hypo_ids' = hypo
    /\ inference_infos' = infos
    /\ optional_prompts' = prompts
    /\ m_idx' = 0
    /\ caller_hidden' = hs
    /\ caller_input' = hs
    /\ aliased' = TRUE
    /\ m_result' = NoTensor
    /\ m_returns' = 0
    /\ m_error' = None
    /\ m_log' = <<>>
    /\ UNCHANGED <<otherVars, poolVars, stepVars, cacheVars>>

\* the assertion compiled away: the loop starts whatever the counts
MergedAssert_Unchecked ==
    /\ mpc = "assert"
    /\ mpc' = "loop"
    /\ m_idx' = 1
    /\ UNCHANGED <<m_fn, m_hidden_states, m_hypo_ids, inference_infos, optional_prompts,
                   caller_hidden, caller_input, aliased, m_result, m_returns, m_error, m_log>>
    /\ UNCHANGED <<otherVars, poolVars, stepVars, cacheVars>>

\* backend.py:238-240
MergedAssert ==
    /\ mpc = "assert"
    /\ IF Len(inference_infos) = Len(optional_prompts)
       THEN /\ mpc' = "loop"
            /\ m_idx' = 1
            /\ UNCHANGED m_error
       ELSE /\ mpc' = "raised"
            /\ m_error' = "AssertionError"
            /\ UNCHANGED m_idx
    /\ UNCHANGED <<m_fn, m_hidden_states, m_hypo_ids, inference_infos, optional_prompts,
                   caller_hidden, caller_input, aliased, m_result, m_returns, m_log>>
    /\ UNCHANGED <<otherVars, poolVars, stepVars, cacheVars>>

\* an unknown uid answered with the first backend of the mapping
LookupBackend_First(fn, uid) ==
    IF \E k \in 1..Len(pools[fn].uids) : pools[fn].uids[k] = uid
    THEN uid
    ELSE pools[fn].uids[1]
\* backend.py:245: self.backends[inference_info.uid]; None stands for the
\* KeyError of a uid that is not a key of the mapping
LookupBackend(fn, uid) ==
    IF \E k \in 1..Len(pools[fn].uids) : pools[fn].uids[k] = uid
    THEN uid
    ELSE None

\* backend.py:242-246: one iteration up to the call of the block's
\* inference_step: the prompt is added in place, the backend is looked up
MergedEnterBlock ==
    /\ mpc = "loop"
    /\ m_idx <= Len(inference_infos)
    /\ ipc = "idle"
    /\ LET info == inference_infos[m_idx]
           optional_prompt == optional_prompts[m_idx]
           injected == IF optional_prompt # NoPrompt
                       THEN AddPrompt(m_hidden_states, optional_prompt)
                       ELSE m_hidden_states
       IN  IF optional_prompt # NoPrompt /\ ~PromptFits(m_hidden_states, optional_prompt)
           THEN /\ mpc' = "raised"
                /\ m_error' = "RuntimeError"
                /\ UNCHANGED <<m_hidden_states, caller_hidden, stepVars>>
           ELSE /\ m_hidden_states' = injected
                /\ caller_hidden' = IF aliased THEN injected ELSE caller_hidden
                /\ IF LookupBackend(m_fn, info.uid) # None
                   THEN /\ StepBegin(LookupBackend(m_fn, info.uid), injected, m_hypo_ids,
                                     info, "merged")
                        /\ mpc' = "in_block"
                        /\ UNCHANGED m_error
                   ELSE /\ mpc' = "raised"
                        /\ m_error' = "KeyError"
                        /\ UNCHANGED stepVars
    /\ UNCHANGED <<m_fn, m_hypo_ids, inference_infos, optional_prompts, m_idx, caller_input,
                   aliased, m_result, m_returns, m_log>>
    /\ UNCHANGED <<otherVars, poolVars, cacheVars>>

\* the result of the block is dropped: the next block gets the old input
MergedBlockReturn_Dropped ==
    /\ mpc = "in_block"
    /\ ipc = "returned"
    /\ m_log' = Append(m_log, [uid |-> self_uid, input |-> hidden_states,
                               output |-> output_hidden_states])
    /\ m_idx' = m_idx + 1
    /\ mpc' = "loop"
    /\ StepEnd
    /\ UNCHANGED <<m_fn, m_hidden_states, m_hypo_ids, inference_infos, optional_prompts,
                   caller_hidden, caller_input, aliased, m_result, m_returns, m_error>>
    /\ UNCHANGED <<otherVars, poolVars, cacheVars>>

\* backend.py:246: the block's inference_step has returned; its result is the
\* new hidden_states (a new tensor object)
MergedBlockReturn ==
    /\ mpc = "in_block"
    /\ ipc = "returned"
    /\ m_hidden_states' = output_hidden_states
    /\ aliased' = FALSE
    /\ m_log' = Append(m_log, [uid |-> self_uid, input |-> hidden_states,
                               output |-> output_hidden_states])
    /\ m_idx' = m_idx + 1
    /\ mpc' = "loop"
    /\ StepEnd
    /\ UNCHANGED <<m_fn, m_hypo_ids, inference_infos, optional_prompts, caller_hidden,
                   caller_input, m_result, m_returns, m_error>>
    /\ UNCHANGED <<otherVars, poolVars, cacheVars>>

\* backend.py:246: the block's inference_step raised; __call__ does not catch
MergedBlockRaise ==
    /\ mpc = "in_block"
    /\ ipc = "raised"
    /\ mpc' = "raised"
    /\ m_error' = "RuntimeError"
    /\ StepEnd
    /\ UNCHANGED <<m_fn, m_hidden_states, m_hypo_ids, inference_infos, optional_prompts,
                   m_idx, caller_hidden, caller_input, aliased, m_result, m_returns, m_log>>
    /\ UNCHANGED <<otherVars, poolVars, cacheVars>>

\* backend.py:248
MergedReturn ==
    /\ mpc = "loop"
    /\ m_idx > Len(inference_infos)
    /\ m_result' = m_hidden_states
    /\ m_returns' = m_returns + 1
    /\ mpc' = "done"
    /\ UNCHANGED <<m_fn, m_hidden_states, m_hypo_ids, inference_infos, optional_prompts,
                   m_idx, caller_hidden, caller_input, aliased, m_error, m_log>>
    /\ UNCHANGED <<otherVars, poolVars, stepVars, cacheVars>>

\* the pool takes the result, or the exception, of its call
MergedEnd ==
    /\ mpc \in {"done", "raised"}
    /\ mpc' = "idle" /\ m_fn' = 0 /\ m_hidden_states' = NoTensor /\ m_hypo_ids' = <<>>
    /\ inference_infos' = <<>> /\ optional_prompts' = <<>> /\ m_idx' = 0
    /\ caller_hidden' = NoTensor /\ caller_input' = NoTensor /\ aliased' = FALSE
    /\ m_result' = NoTensor /\ m_returns' = 0 /\ m_error' = None /\ m_log' = <<>>
    /\ UNCHANGED <<otherVars, poolVars, stepVars, cacheVars>>

\* the caller takes the outcome of its first call and keeps it, with the
\* inputs it passed
MergedEndKept ==
    /\ mpc \in {"done", "raised"}
    /\ ~m_prev.kept
    /\ m_prev' = [kept |-> TRUE, fn |-> m_fn, hidden_states |-> caller_input,
                  hypo_ids |-> m_hypo_ids, inference_infos |-> inference_infos,
                  optional_prompts |-> optional_prompts, result |-> m_result,
                  error |-> m_error, log |-> m_log]
    /\ mpc' = "idle" /\ m_fn' = 0 /\ m_hidden_states' = NoTensor /\ m_hypo_ids' = <<>>
    /\ inference_infos' = <<>> /\ optional_prompts' = <<>> /\ m_idx' = 0
    /\ caller_hidden' = NoTensor /\ caller_input' = NoTensor /\ aliased' = FALSE
    /\ m_result' = NoTensor /\ m_returns' = 0 /\ m_error' = None /\ m_log' = <<>>
    /\ UNCHANGED <<restVars, configVars, estVars, trainVars, weightVars, policyVars, descrVars>>
    /\ UNCHANGED <<poolVars, stepVars, cacheVars>>

\* the caller invokes the merged step again, with tensors of the same values
MergedRepeat ==
    /\ m_prev.kept
    /\ MergedCall(m_prev.fn, m_prev.hidden_states, m_prev.hypo_ids,
                  m_prev.inference_infos, m_prev.optional_prompts)

\* ------------------------------------------------------ the cache helpers
\* _reorder_cache_inplace(cache_tensors, hypo_ids)
CacheReorder(hypo) ==
    /\ cache_ops < MaxCacheOps
    /\ cache_ops' = cache_ops + 1
    /\ cache_tensors' = reorder_cache_inplace(cache_tensors, hypo)
    /\ cache_op' = [NoCacheOp EXCEPT !.op = "reorder", !.before = cache_tensors,
                                     !.hypo = hypo,
                                     !.touched = ReorderTouched(cache_tensors, hypo)]
    /\ UNCHANGED <<otherVars, poolVars, mergedVars, stepVars>>

\* _select_layer_past(cache_tensors, prefix_length)
CacheSelect(prefix_length) ==
    /\ cache_ops < MaxCacheOps
    /\ cache_ops' = cache_ops + 1
    /\ cache_op' = [NoCacheOp EXCEPT !.op = "select", !.before = cache_tensors,
                                     !.prefix_length = prefix_length,
                                     !.result = select_layer_past(cache_tensors, prefix_length)]
    /\ UNCHANGED cache_tensors
    /\ UNCHANGED <<otherVars, poolVars, mergedVars, stepVars>>

\* _update_cache_inplace(cache_tensors, new_kvs, prefix_length); the first
\* slice assignment raises when the slices do not fit
CacheUpdate(new_kvs, prefix_length) ==
    /\ cache_ops < MaxCacheOps
    /\ cache_ops' = cache_ops + 1
    /\ IF UpdateFits(cache_tensors, new_kvs, prefix_length)
       THEN cache_tensors' = update_cache_inplace(cache_tensors, new_kvs, prefix_length)
       ELSE UNCHANGED cache_tensors
    /\ cache_op' = [NoCacheOp EXCEPT !.op = "update", !.before = cache_tensors,
                                     !.new_kvs = new_kvs, !.prefix_length = prefix_length,
                                     !.raised = ~UpdateFits(cache_tensors, new_kvs,
                                                            prefix_length)]
    /\ UNCHANGED <<otherVars, poolVars, mergedVars, stepVars>>

\* ------------------------------------------------ _estimate_max_chunk_length
\* the byte ceilings a backend is constructed with where the estimate is called
EstimateBudgets == ChunkBudgets \cup {0}

\* the division alone, without the floor of one position
estimate_max_chunk_length_NoFloor(hs, info) ==
    max_chunk_size_bytes \div
        (MaxOf(SeqRange(shard_num_heads)) * BatchOf(hs) * dtype_bytes
            * (info.prefix_length + SeqLenOf(hs)))

\* backend.py:155-161
estimate_max_chunk_length(hs, info) ==
    LET batch_size == BatchOf(hs)
        seq_length == SeqLenOf(hs)
        worst_case_length == info.prefix_length + seq_length
        attn_bytes_per_token ==
            MaxOf(SeqRange(shard_num_heads)) * batch_size * dtype_bytes
                * worst_case_length
    IN  Max(1, max_chunk_size_bytes \div attn_bytes_per_token)

\* backend.py:160: attn_bytes_per_token
attn_bytes_per_token(hs, info) ==
    MaxOf(SeqRange(shard_num_heads)) * BatchOf(hs) * dtype_bytes
        * (info.prefix_length + SeqLenOf(hs))

\* one call of _estimate_max_chunk_length; the integer division raises
\* ZeroDivisionError when attn_bytes_per_token is 0
EstimateCall(hs, info) ==
    /\ est_call' =
            [called |-> TRUE, batch_size |-> BatchOf(hs), seq_length |-> SeqLenOf(hs),
             prefix_length |-> info.prefix_length,
             result |-> IF attn_bytes_per_token(hs, info) = 0 THEN 0
                        ELSE estimate_max_chunk_length(hs, info),
             error |-> IF attn_bytes_per_token(hs, info) = 0 THEN "ZeroDivisionError"
                       ELSE None]
    /\ UNCHANGED <<restVars, configVars, trainVars, weightVars, policyVars, descrVars, replayVars>>
    /\ UNCHANGED <<poolVars, mergedVars, stepVars, cacheVars>>

\* ------------------------------------------------------ forward and backward
\* ModuleBackend.forward: the block on the inputs, outside any session (no
\* layer past, nothing kept)
ModuleBackendForward(uid, inputs) == BlockOutput(uid, NoPast(inputs), inputs)
\* ModuleBackend.backward: the gradients with respect to the inputs, for the
\* gradients with respect to the outputs given
ModuleBackendBackward(uid, grad_outputs) ==
    [r \in 1..Len(grad_outputs) |->
        [j \in 1..Len(grad_outputs[r]) |->
            SumSeq(grad_outputs[r], j, Len(grad_outputs[r]))]]
Adapters == {"", "lora"}

\* backend.py:108-109 and 113-114: the last input is the adapter's name;
\* using_adapter switches it on and remembers the one that was
TrainCall(kind, uid, inputs, adapter) ==
    /\ tpc = "idle"
    /\ tpc' = kind
    /\ t_call' = [uid |-> uid, inputs |-> inputs, active_adapter |-> adapter,
                  previous |-> active_adapter]
    /\ active_adapter' = adapter
    /\ t_outputs' = NoTensor
    /\ UNCHANGED <<restVars, configVars, estVars, weightVars, policyVars, descrVars, replayVars>>
    /\ UNCHANGED <<poolVars, mergedVars, stepVars, cacheVars>>

\* the call takes part in the session: it writes its first position to the cache
TrainSuper_WritesCache ==
    /\ tpc \in {"forward", "backward"}
    /\ t_outputs' = IF tpc = "forward"
                    THEN ModuleBackendForward(t_call.uid, t_call.inputs)
                    ELSE ModuleBackendBackward(t_call.uid, t_call.inputs)
    /\ tpc' = "returning"
    /\ cache_tensors' = update_cache_inplace(cache_tensors, NewKVs(0, 1), 0)
    /\ UNCHANGED <<t_call, active_adapter, cache_op, cache_ops>>
    /\ UNCHANGED <<restVars, configVars, estVars, weightVars, policyVars, descrVars, replayVars>>
    /\ UNCHANGED <<poolVars, mergedVars, stepVars>>

\* backend.py:110 and 115: super().forward(*inputs), super().backward(*inputs)
TrainSuper ==
    /\ tpc \in {"forward", "backward"}
    /\ t_outputs' = IF tpc = "forward"
                    THEN ModuleBackendForward(t_call.uid, t_call.inputs)
                    ELSE ModuleBackendBackward(t_call.uid, t_call.inputs)
    /\ tpc' = "returning"
    /\ UNCHANGED <<t_call, active_adapter>>
    /\ UNCHANGED <<restVars, configVars, estVars, weightVars, policyVars, descrVars, replayVars>>
    /\ UNCHANGED <<poolVars, mergedVars, stepVars, cacheVars>>

\* backend.py:109-110 and 114-115: the with block is left, the former adapter
\* is back, the pool takes the result
TrainReturn ==
    /\ tpc = "returning"
    /\ active_adapter' = t_call.previous
    /\ tpc' = "idle"
    /\ t_call' = NoTrainCall
    /\ t_outputs' = NoTensor
    /\ UNCHANGED <<restVars, configVars, estVars, weightVars, policyVars, descrVars, replayVars>>
    /\ UNCHANGED <<poolVars, mergedVars, stepVars, cacheVars>>

\* ---------------------------------------------------------------- shutdown
NoPools == [inference_pool |-> 0, forward_pool |-> 0, backward_pool |-> 0]
\* the pools whose function is bound to backend uid
PoolsOf(uid) ==
    {pid \in 1..Len(pools) : \E k \in 1..Len(pools[pid].uids) : pools[pid].uids[k] = uid}

\* backend.py:201: the three references are set to None
ShutdownCall(uid) ==
    /\ \A u \in UIDs : spc[u] = "idle"
    /\ gpc # "loop"
    /\ shutdowns[uid] < MaxShutdowns
    /\ backends' = [backends EXCEPT ![uid] = NoPools]
    /\ spc' = [spc EXCEPT ![uid] = "loop"]
    /\ s_idx' = [s_idx EXCEPT ![uid] = 1]
    /\ UNCHANGED <<params, shutdowns, after_first, released_alive>>
    /\ UNCHANGED <<pools, gpc, g_backends, g_idx, merged_pool, pools_at_merge>>
    /\ UNCHANGED <<restVars, configVars, estVars, trainVars, policyVars, descrVars, replayVars>>
    /\ UNCHANGED <<mergedVars, stepVars, cacheVars>>

\* empty_like without the device: the new tensor is where the old one was
ShutdownParam_KeepsDevice(uid) ==
    /\ spc[uid] = "loop"
    /\ s_idx[uid] <= Len(params[uid])
    /\ LET p == params[uid][s_idx[uid]]
       IN  IF p.device # "meta"
           THEN /\ params' = [params EXCEPT ![uid][s_idx[uid]] =
                                    [device |-> p.device, data |-> "empty"]]
                /\ released_alive' =
                        [released_alive EXCEPT ![uid] =
                            @ \cup {pid \in PoolsOf(uid) : pools[pid].alive}]
           ELSE UNCHANGED <<params, released_alive>>
    /\ s_idx' = [s_idx EXCEPT ![uid] = @ + 1]
    /\ UNCHANGED <<spc, shutdowns, after_first>>
    /\ UNCHANGED <<restVars, configVars, estVars, trainVars, policyVars, descrVars, replayVars>>
    /\ UNCHANGED <<poolVars, mergedVars, stepVars, cacheVars>>

\* backend.py:205-207: one parameter of self.module; a parameter that is not
\* meta gets new, uninitialised data on the host
ShutdownParam(uid) ==
    /\ spc[uid] = "loop"
    /\ s_idx[uid] <= Len(params[uid])
    /\ LET p == params[uid][s_idx[uid]]
       IN  IF p.device # "meta"
           THEN /\ params' = [params EXCEPT ![uid][s_idx[uid]] =
                                    [device |-> "cpu", data |-> "empty"]]
                /\ released_alive' =
                        [released_alive EXCEPT ![uid] =
                            @ \cup {pid \in PoolsOf(uid) : pools[pid].alive}]
           ELSE UNCHANGED <<params, released_alive>>
    /\ s_idx' = [s_idx EXCEPT ![uid] = @ + 1]
    /\ UNCHANGED <<spc, shutdowns, after_first>>
    /\ UNCHANGED <<restVars, configVars, estVars, trainVars, policyVars, descrVars, replayVars>>
    /\ UNCHANGED <<poolVars, mergedVars, stepVars, cacheVars>>

\* backend.py:205: the loop is over, shutdown returns
ShutdownReturn(uid) ==
    /\ spc[uid] = "loop"
    /\ s_idx[uid] > Len(params[uid])
    /\ spc' = [spc EXCEPT ![uid] = "idle"]
    /\ s_idx' = [s_idx EXCEPT ![uid] = 0]
    /\ shutdowns' = [shutdowns EXCEPT ![uid] = @ + 1]
    /\ after_first' = IF shutdowns[uid] = 0
                      THEN [after_first EXCEPT ![uid] =
                                [pools |-> backends[uid], params |-> params[uid]]]
                      ELSE after_first
    /\ UNCHANGED <<params, released_alive>>
    /\ UNCHANGED <<restVars, configVars, estVars, trainVars, policyVars, descrVars, replayVars>>
    /\ UNCHANGED <<poolVars, mergedVars, stepVars, cacheVars>>

\* ------------------------------------------------------------------ Policy
\* The percentages are Python floats (policy.py:9-14): binary floating point,
\* every result rounded to the nearest value of MantissaBits significant bits,
\* ties to the even mantissa.  The float n / FloatScale is the integer n.
FloatScale == 8
Hundred == 100 * FloatScale
Abs(n) == IF n < 0 THEN -n ELSE n
BitLength(a) == CHOOSE k \in 0..30 : 2^k > a /\ (k = 0 \/ 2^(k - 1) <= a)
RoundFloat(n) ==
    LET a == Abs(n)
        e == BitLength(a) - MantissaBits
    IN  IF e <= 0 THEN n
        ELSE LET q == 2^e
                 lo == a \div q
                 rem == a % q
                 up == IF 2 * rem > q \/ (2 * rem = q /\ lo % 2 = 1) THEN lo + 1 ELSE lo
             IN  (IF n < 0 THEN -1 ELSE 1) * up * q
FloatAdd(a, b) == RoundFloat(a + b)
FloatSub(a, b) == RoundFloat(a - b)
IsFloat(n) == RoundFloat(n) = n

\* the percentages a policy is constructed with: 0, a quarter percent, 100, 150
PercentValues == {0, 2, Hundred, 150 * FloatScale}

\* policy.py:3-37: the generated __init__ stores every argument as given
PolicyNew(wg, wc, cg, cc, ag, ac) ==
    /\ ~policy.constructed
    /\ policy' = [constructed |-> TRUE, gpu_batch_size |-> 1, num_gpu_batches |-> 1,
                  w_gpu_percent |-> wg, w_cpu_percent |-> wc,
                  cache_gpu_percent |-> cg, cache_cpu_percent |-> cc,
                  act_gpu_percent |-> ag, act_cpu_percent |-> ac,
                  overlap |-> 1, sep_layer |-> 1, pin_weight |-> 1, cpu_cache_compute |-> 0,
                  attn_sparsity |-> FloatScale, compress_weight |-> 0,
                  comp_weight_config |-> 0, compress_cache |-> 0, comp_cache_config |-> 0]
    /\ UNCHANGED <<policy_op, policy_ops>>
    /\ UNCHANGED <<restVars, configVars, estVars, trainVars, weightVars, descrVars, replayVars>>
    /\ UNCHANGED <<poolVars, mergedVars, stepVars, cacheVars>>

\* the CPU percentage forgotten
w_disk_percent_GpuOnly(self) == FloatSub(Hundred, self.w_gpu_percent)
\* policy.py:39-49
w_disk_percent(self) == FloatSub(FloatSub(Hundred, self.w_gpu_percent), self.w_cpu_percent)
cache_disk_percent(self) ==
    FloatSub(FloatSub(Hundred, self.cache_gpu_percent), self.cache_cpu_percent)
act_disk_percent(self) ==
    FloatSub(FloatSub(Hundred, self.act_gpu_percent), self.act_cpu_percent)
\* policy.py:51-65
device(self) == IF self.w_gpu_percent > 0 THEN "cuda:0" ELSE "cpu"
dtype(self) == "float16"

Accessors == {"w_disk_percent", "cache_disk_percent", "act_disk_percent", "device", "dtype"}
ReadAccessor(self, name) ==
    CASE name = "w_disk_percent" -> w_disk_percent(self)
      [] name = "cache_disk_percent" -> cache_disk_percent(self)
      [] name = "act_disk_percent" -> act_disk_percent(self)
      [] name = "device" -> device(self)
      [] name = "dtype" -> dtype(self)

\* a derived accessor of the policy is read
PolicyRead(name) ==
    /\ policy.constructed
    /\ policy_ops < MaxPolicyOps
    /\ policy_ops' = policy_ops + 1
    /\ policy_op' = [op |-> "read", field |-> name, result |-> ReadAccessor(policy, name),
                     error |-> None, before |-> policy]
    /\ UNCHANGED policy
    /\ UNCHANGED <<restVars, configVars, estVars, trainVars, weightVars, descrVars, replayVars>>
    /\ UNCHANGED <<poolVars, mergedVars, stepVars, cacheVars>>

\* a plain dataclass: the assignment goes through
PolicyAssign_NotFrozen(field, value) ==
    /\ policy.constructed
    /\ policy_ops < MaxPolicyOps
    /\ policy_ops' = policy_ops + 1
    /\ policy_op' = [op |-> "assign", field |-> field, result |-> value,
                     error |-> None, before |-> policy]
    /\ policy' = [policy EXCEPT ![field] = value]
    /\ UNCHANGED <<restVars, configVars, estVars, trainVars, weightVars, descrVars, replayVars>>
    /\ UNCHANGED <<poolVars, mergedVars, stepVars, cacheVars>>

\* policy.py:3: frozen=True; __setattr__ raises FrozenInstanceError
PolicyAssign(field, value) ==
    /\ policy.constructed
    /\ policy_ops < MaxPolicyOps
    /\ policy_ops' = policy_ops + 1
    /\ policy_op' = [op |-> "assign", field |-> field, result |-> value,
                     error |-> "FrozenInstanceError", before |-> policy]
    /\ UNCHANGED policy
    /\ UNCHANGED <<restVars, configVars, estVars, trainVars, weightVars, descrVars, replayVars>>
    /\ UNCHANGED <<poolVars, mergedVars, stepVars, cacheVars>>

\* ------------------------------------------ get_inference_cache_descriptors
\* self.module.devices, one per shard (backend.py:78), and self.dtype
ModuleDevices == [s \in 1..Len(shard_num_heads) |-> s - 1]
backend_dtype == "float16"
TensorDescriptor(shape, dt, dev) == [shape |-> shape, dtype |-> dt, device |-> dev]

\* the heads of one shard's key and value (backend.py:99-101)
NumKVHeads(num_heads) ==
    IF config.has_num_key_value_heads THEN config.num_key_value_heads
    ELSE num_heads \div config.num_key_value_groups

\* the value described with the key's shape
get_inference_cache_descriptors_SameShape(batch_size, max_length) ==
    [k \in 1..(2 * Min(Len(ModuleDevices), Len(shard_num_heads))) |->
        TensorDescriptor(<<batch_size, NumKVHeads(shard_num_heads[ShardOf(k)]), head_dim,
                           max_length>>,
                         backend_dtype, ModuleDevices[ShardOf(k)])]

\* backend.py:94-105: for every (device, num_heads) of the zip, the key and
\* then the value descriptor
get_inference_cache_descriptors(batch_size, max_length) ==
    [k \in 1..(2 * Min(Len(ModuleDevices), Len(shard_num_heads))) |->
        LET dev == ModuleDevices[ShardOf(k)]
            num_heads == NumKVHeads(shard_num_heads[ShardOf(k)])
        IN  IF IsKey(k)
            THEN TensorDescriptor(<<batch_size, num_heads, head_dim, max_length>>,
                                  backend_dtype, dev)
            ELSE TensorDescriptor(<<batch_size, num_heads, max_length, head_dim>>,
                                  backend_dtype, dev)]

DescriptorsCall(batch_size, max_length) ==
    /\ descr_call' = [called |-> TRUE, batch_size |-> batch_size, max_length |-> max_length,
                      result |-> get_inference_cache_descriptors(batch_size, max_length)]
    /\ UNCHANGED <<restVars, configVars, estVars, trainVars, weightVars, policyVars, replayVars>>
    /\ UNCHANGED <<poolVars, mergedVars, stepVars, cacheVars>>

\* ------------------------------------------------------- the task pools
\* PrioritizedTaskPool: submit, the scheduling loop that forms a batch, runs
\* the pool's function on it and resolves the futures, and shutdown.  The
\* clock is read at every submission and moves with every submission and
\* every batch that has run.
Priorities == {1, 3, 5}
TopPriority == 0                    \* the priority of a promoted task
starvation_horizon == 3             \* the wait after which a task is promoted
NoError == [kind |-> "None", batch |-> 0]
PoolClosed == [kind |-> "PoolClosed", batch |-> 0]
ExecutorOutcomes == {"ok", "RuntimeError"}

\* the pools that are sent tasks: the inference pool of the first backend and
\* the forward pool of the second
TaskPoolIds == {InitBackends[UidSeq[1]].inference_pool, InitBackends[UidSeq[2]].forward_pool}
\* the tasks: inference tasks of every priority and size, and a forward task
TaskInputs ==
    ({InitBackends[UidSeq[1]].inference_pool} \X Priorities \X BatchSizes)
        \cup {<<InitBackends[UidSeq[2]].forward_pool, 1, 1>>}
\* the payload of the n-th task: `size` rows of one position
TaskArgs(n, size) == Pattern(size, 1, n % 2)
TaskSize(k) == BatchOf(tasks[k].args)
Busy(pid) == \E b \in 1..Len(batches) : batches[b].pool = pid /\ batches[b].outcome = "running"
Pending(pid) == {k \in 1..Len(tasks) : tasks[k].pool = pid /\ tasks[k].state = "pending"}

\* submit: the task is keyed by (priority, arrival time); on a pool that was
\* shut down the future fails with PoolClosed at once
SubmitTask(pid, priority, size) ==
    /\ Len(tasks) < MaxTasks
    /\ tasks' = Append(tasks,
            [pool |-> pid, priority |-> priority, arrival |-> now,
             args |-> TaskArgs(Len(tasks) + 1, size),
             state |-> IF pid \in closed THEN "rejected" ELSE "pending",
             result |-> NoTensor,
             error |-> IF pid \in closed THEN PoolClosed ELSE NoError,
             resolutions |-> IF pid \in closed THEN 1 ELSE 0])
    /\ now' = now + 1
    /\ UNCHANGED <<batches, closed>>
    /\ UNCHANGED <<histVars, arenaVars, configVars, estVars, trainVars, weightVars, policyVars, descrVars,
                   replayVars>>
    /\ UNCHANGED <<poolVars, mergedVars, stepVars, cacheVars>>

\* starvation avoidance: a task that has waited longer than the horizon when a
\* batch is formed counts as of the highest priority
EffectivePriority(k, at) ==
    IF at - tasks[k].arrival > starvation_horizon THEN TopPriority ELSE tasks[k].priority
\* tasks in the order of their arrival, whatever their priority
Before_ArrivalOnly(a, b, at) == tasks[a].arrival < tasks[b].arrival
\* ascending priority, then arrival
Before(a, b, at) ==
    \/ EffectivePriority(a, at) < EffectivePriority(b, at)
    \/ /\ EffectivePriority(a, at) = EffectivePriority(b, at)
       /\ tasks[a].arrival < tasks[b].arrival
RECURSIVE PopOrder(_, _)
PopOrder(S, at) ==
    IF S = {} THEN <<>>
    ELSE LET first == CHOOSE a \in S : \A b \in S \ {a} : Before(a, b, at)
         IN  <<first>> \o PopOrder(S \ {first}, at)
\* popped until the cumulative size would exceed the budget
RECURSIVE TakeBatch(_, _)
TakeBatch(order, budget) ==
    IF order = <<>> THEN <<>>
    ELSE IF TaskSize(Head(order)) > budget THEN <<>>
    ELSE <<Head(order)>> \o TakeBatch(Tail(order), budget - TaskSize(Head(order)))

\* the scheduling loop forms the next batch of a pool and hands it to the
\* pool's function; batches of one pool run one after the other
FormBatch(pid) ==
    /\ pools[pid].alive
    /\ pid \notin closed
    /\ ~Busy(pid)
    /\ Pending(pid) # {}
    /\ LET ids == TakeBatch(PopOrder(Pending(pid), now), pools[pid].max_batch_size)
       IN  /\ batches' = Append(batches,
                    [pool |-> pid, tasks |-> ids, at |-> now, outcome |-> "running"])
           /\ tasks' = [k \in 1..Len(tasks) |->
                    IF k \in SeqRange(ids) THEN [tasks[k] EXCEPT !.state = "dispatched"]
                    ELSE tasks[k]]
    /\ UNCHANGED <<now, closed>>
    /\ UNCHANGED <<histVars, arenaVars, configVars, estVars, trainVars, weightVars, policyVars, descrVars,
                   replayVars>>
    /\ UNCHANGED <<poolVars, mergedVars, stepVars, cacheVars>>

\* the batch's input: the rows of its tasks, in the order of the batch
RECURSIVE BatchInputs(_)
BatchInputs(ids) ==
    IF ids = <<>> THEN <<>> ELSE tasks[Head(ids)].args \o BatchInputs(Tail(ids))
RECURSIVE BatchOffset(_, _)
BatchOffset(ids, j) ==
    IF j <= 1 THEN 0 ELSE BatchOffset(ids, j - 1) + TaskSize(ids[j - 1])
\* what the pool's function returns on a batch: the block of the pool's
\* backend on the rows
ExecutorOutput(pid, inputs) ==
    IF pools[pid].fn = "forward"
    THEN ModuleBackendForward(pools[pid].uids[1], inputs)
    ELSE ModuleForward(pools[pid].uids[1], inputs)
\* the rows of the output that belong to the j-th task of the batch
OutputSlice(outputs, ids, j) ==
    SubSeq(outputs, BatchOffset(ids, j) + 1, BatchOffset(ids, j) + TaskSize(ids[j]))
IndexIn(ids, k) == CHOOSE j \in 1..Len(ids) : ids[j] = k

\* only the first task of a failed batch is given the error; the others are
\* given their slice of an output
ResolveTask_FirstFails(b, k, outcome) ==
    LET ids == batches[b].tasks
        outputs == ExecutorOutput(batches[b].pool, BatchInputs(ids))
    IN  IF outcome = "ok" \/ IndexIn(ids, k) > 1
        THEN [tasks[k] EXCEPT !.state = "done",
                              !.result = OutputSlice(outputs, ids, IndexIn(ids, k)),
                              !.resolutions = @ + 1]
        ELSE [tasks[k] EXCEPT !.state = "failed",
                              !.error = [kind |-> outcome, batch |-> b],
                              !.resolutions = @ + 1]
\* the future of task k of batch b is resolved: with its slice of the output,
\* or with the exception the function raised
ResolveTask(b, k, outcome) ==
    LET ids == batches[b].tasks
        outputs == ExecutorOutput(batches[b].pool, BatchInputs(ids))
    IN  IF outcome = "ok"
        THEN [tasks[k] EXCEPT !.state = "done",
                              !.result = OutputSlice(outputs, ids, IndexIn(ids, k)),
                              !.resolutions = @ + 1]
        ELSE [tasks[k] EXCEPT !.state = "failed",
                              !.error = [kind |-> outcome, batch |-> b],
                              !.resolutions = @ + 1]

\* an exception of the pool's function ends the scheduling loop: the futures
\* of the batch are resolved and the pool is no longer alive
FinishBatch_LoopDies(pid, outcome) ==
    /\ Busy(pid)
    /\ LET b == CHOOSE c \in 1..Len(batches) :
                    batches[c].pool = pid /\ batches[c].outcome = "running"
       IN  /\ batches' = [batches EXCEPT ![b].outcome = outcome]
           /\ tasks' = [k \in 1..Len(tasks) |->
                    IF k \in SeqRange(batches[b].tasks) THEN ResolveTask(b, k, outcome)
                    ELSE tasks[k]]
    /\ now' = now + 1
    /\ pools' = IF outcome = "ok" THEN pools ELSE [pools EXCEPT ![pid].alive = FALSE]
    /\ UNCHANGED closed
    /\ UNCHANGED <<histVars, arenaVars, configVars, estVars, trainVars, weightVars, policyVars, descrVars,
                   replayVars>>
    /\ UNCHANGED <<backends, gpc, g_backends, g_idx, merged_pool, pools_at_merge>>
    /\ UNCHANGED <<mergedVars, stepVars, cacheVars>>

\* the pool's function has run on the batch, returned or raised, and the
\* futures of the batch are resolved; the loop goes on
FinishBatch(pid, outcome) ==
    /\ Busy(pid)
    /\ LET b == CHOOSE c \in 1..Len(batches) :
                    batches[c].pool = pid /\ batches[c].outcome = "running"
       IN  /\ batches' = [batches EXCEPT ![b].outcome = outcome]
           /\ tasks' = [k \in 1..Len(tasks) |->
                    IF k \in SeqRange(batches[b].tasks) THEN ResolveTask(b, k, outcome)
                    ELSE tasks[k]]
    /\ now' = now + 1
    /\ UNCHANGED closed
    /\ UNCHANGED <<histVars, arenaVars, configVars, estVars, trainVars, weightVars, policyVars, descrVars,
                   replayVars>>
    /\ UNCHANGED <<poolVars, mergedVars, stepVars, cacheVars>>

\* shutdown of a pool: no further batch is formed, submit fails
PoolShutdown(pid) ==
    /\ pools[pid].alive
    /\ pid \notin closed
    /\ closed' = closed \cup {pid}
    /\ UNCHANGED <<now, tasks, batches>>
    /\ UNCHANGED <<histVars, arenaVars, configVars, estVars, trainVars, weightVars, policyVars, descrVars,
                   replayVars>>
    /\ UNCHANGED <<poolVars, mergedVars, stepVars, cacheVars>>

\* -------------------------------------------------- the cache allocator
\* allocate(descriptors, timeout) and release(handle) on the arena.  A request
\* is the capacity its descriptors need; the bookkeeping of one call step is
\* done under the allocator's lock, so a step is one action.
RequestSizes == {4, 8}
Timeouts == {0, 1}
\* placement: the first cache_gpu_percent of the capacity goes to accelerator
\* memory, the next cache_cpu_percent to host memory, the remainder to disk
NeedOf(size) ==
    LET gpu == (size * arena_policy.cache_gpu_percent) \div 100
        cpu == (size * arena_policy.cache_cpu_percent) \div 100
    IN  [gpu |-> gpu, cpu |-> cpu, disk |-> size - gpu - cpu]
NeverFits(need) == \E tier \in Tiers : need[tier] > Capacity[tier]
Fits(need) == \A tier \in Tiers : need[tier] <= free[tier]
NewCall(size, timeout, state, handle) ==
    [size |-> size, timeout |-> timeout, state |-> state, handle |-> handle]

\* the regions are reserved tier by tier, as far as each tier has room
Reserve_Partial(c, call) ==
    LET need == NeedOf(call.size)
        got == [tier \in Tiers |-> IF need[tier] <= free[tier] THEN need[tier] ELSE 0]
    IN  /\ free' = [tier \in Tiers |-> free[tier] - got[tier]]
        /\ IF Fits(need)
           THEN /\ handles' = Append(handles, [regions |-> need, live |-> TRUE])
                /\ calls' = [k \in 1..Max(c, Len(calls)) |->
                        IF k = c THEN [call EXCEPT !.state = "ok", !.handle = Len(handles) + 1]
                        ELSE calls[k]]
           ELSE /\ handles' = handles
                /\ calls' = [k \in 1..Max(c, Len(calls)) |->
                        IF k = c
                        THEN [call EXCEPT !.state = IF call.timeout = 0 \/ call.state = "waiting"
                                                      THEN "AllocationTimeout" ELSE "waiting"]
                        ELSE calls[k]]
\* one attempt of call c to reserve: every region of the request, or none
Reserve(c, call) ==
    LET need == NeedOf(call.size)
    IN  IF Fits(need)
        THEN /\ free' = [tier \in Tiers |-> free[tier] - need[tier]]
             /\ handles' = Append(handles, [regions |-> need, live |-> TRUE])
             /\ calls' = [k \in 1..Max(c, Len(calls)) |->
                     IF k = c THEN [call EXCEPT !.state = "ok", !.handle = Len(handles) + 1]
                     ELSE calls[k]]
        ELSE /\ free' = free
             /\ handles' = handles
             /\ calls' = [k \in 1..Max(c, Len(calls)) |->
                     IF k = c
                     THEN [call EXCEPT !.state = IF call.timeout = 0 \/ call.state = "waiting"
                                                   THEN "AllocationTimeout" ELSE "waiting"]
                     ELSE calls[k]]

\* allocate is called: a request that can never fit fails with
\* CapacityExceeded; otherwise the regions are reserved, or the call fails at
\* once (timeout 0), or it waits
AllocateCall(size, timeout) ==
    /\ Len(calls) < MaxAllocs
    /\ IF NeverFits(NeedOf(size))
       THEN /\ calls' = Append(calls, NewCall(size, timeout, "CapacityExceeded", 0))
            /\ UNCHANGED <<free, handles>>
       ELSE Reserve(Len(calls) + 1, NewCall(size, timeout, "new", 0))
    /\ UNCHANGED arena_policy
    /\ UNCHANGED <<histVars, taskVars, configVars, estVars, trainVars, weightVars, policyVars,
                   descrVars, replayVars>>
    /\ UNCHANGED <<poolVars, mergedVars, stepVars, cacheVars>>

\* a waiting call is woken by a release and finds room
AllocateWake(c) ==
    /\ calls[c].state = "waiting"
    /\ Fits(NeedOf(calls[c].size))
    /\ Reserve(c, calls[c])
    /\ UNCHANGED arena_policy
    /\ UNCHANGED <<histVars, taskVars, configVars, estVars, trainVars, weightVars, policyVars,
                   descrVars, replayVars>>
    /\ UNCHANGED <<poolVars, mergedVars, stepVars, cacheVars>>

\* the timeout of a waiting call fires: one last attempt, then AllocationTimeout
AllocateExpire(c) ==
    /\ calls[c].state = "waiting"
    /\ Reserve(c, calls[c])
    /\ UNCHANGED arena_policy
    /\ UNCHANGED <<histVars, taskVars, configVars, estVars, trainVars, weightVars, policyVars,
                   descrVars, replayVars>>
    /\ UNCHANGED <<poolVars, mergedVars, stepVars, cacheVars>>

\* a released handle gives its regions back a second time
Release_Again(h) ==
    /\ free' = [tier \in Tiers |-> free[tier] + handles[h].regions[tier]]
    /\ handles' = [handles EXCEPT ![h].live = FALSE]
    /\ UNCHANGED <<arena_policy, calls>>
    /\ UNCHANGED <<histVars, taskVars, configVars, estVars, trainVars, weightVars, policyVars,
                   descrVars, replayVars>>
    /\ UNCHANGED <<poolVars, mergedVars, stepVars, cacheVars>>
\* release(handle): the regions of a live handle go back to the free pool; on
\* a handle that was released it is a no-op
Release(h) ==
    /\ IF handles[h].live
       THEN /\ free' = [tier \in Tiers |-> free[tier] + handles[h].regions[tier]]
            /\ handles' = [handles EXCEPT ![h].live = FALSE]
       ELSE UNCHANGED <<free, handles>>
    /\ UNCHANGED <<arena_policy, calls>>
    /\ UNCHANGED <<histVars, taskVars, configVars, estVars, trainVars, weightVars, policyVars,
                   descrVars, replayVars>>
    /\ UNCHANGED <<poolVars, mergedVars, stepVars, cacheVars>>

\* ---------------------------------------------------------- specifications
Requests(lens, seeds) == {Pattern(B, L, a) : B \in BatchSizes, L \in lens, a \in seeds}

PoolActions ==
    \/ \E pid \in 1..Len(pools) : PoolStart(pid)
    \/ \E mapping \in Mappings : MergeCall(mapping)
    \/ MergeStep
    \/ MergeReturn

MergedActions ==
    \/ /\ mpc = "idle"
       /\ ipc = "idle"
       /\ \E fn \in 1..Len(pools), hs \in Requests(ShortLens, Seeds) :
            \E hypo \in {<<>>, Reversed(BatchOf(hs))},
               infos \in SeqsUpTo(Infos, MaxBlocks),
               prompts \in SeqsUpTo(Prompts(BatchOf(hs)), MaxBlocks) :
                   MergedCall(fn, hs, hypo, infos, prompts)
    \/ MergedAssert
    \/ MergedEnterBlock
    \/ MergedBlockReturn
    \/ MergedBlockRaise
    \/ MergedReturn
    \/ MergedEnd

StepActions ==
    \/ /\ ipc = "idle"
       /\ mpc = "idle"
       /\ \E uid \in UIDs, hs \in Requests(Lens, Seeds), prefix_length \in 0..MaxLength :
            \E hypo \in StepHypoIds(BatchOf(hs)) : StepCall(uid, hs, hypo, prefix_length)
    \/ StepChunk
    \/ StepFinish
    \/ StepReturn

CacheActions ==
    \/ /\ cache_ops < MaxCacheOps
       /\ \E hypo \in HypoIds(CacheBatch) : CacheReorder(hypo)
    \/ /\ cache_ops < MaxCacheOps
       /\ \E prefix_length \in 0..(MaxLength + 1) : CacheSelect(prefix_length)
    \/ /\ cache_ops < MaxCacheOps
       /\ \E n \in 1..(MaxLength + 1), prefix_length \in 0..(MaxLength + 1) :
            CacheUpdate(NewKVs(1, n), prefix_length)

EstimateActions ==
    \E uid \in UIDs, hs \in Requests(Lens, {0}), prefix_length \in 0..MaxLength :
        EstimateCall(hs, [uid |-> uid, prefix_length |-> prefix_length])

TrainLens == {1, MaxShortLen}
TrainActions ==
    \/ /\ tpc = "idle"
       /\ \E kind \in {"forward", "backward"}, uid \in UIDs,
             inputs \in Requests(TrainLens, {0}), adapter \in Adapters :
                TrainCall(kind, uid, inputs, adapter)
    \/ TrainSuper
    \/ TrainReturn

\* the steps of a session on its cache, between forward and backward calls
SessionActions ==
    \/ /\ cache_ops < MaxCacheOps
       /\ CacheReorder(Reversed(CacheBatch))
    \/ /\ cache_ops < MaxCacheOps
       /\ \E n \in 1..2 : CacheUpdate(NewKVs(1, n), n - 1)

ShutdownActions ==
    \/ \E uid \in UIDs : ShutdownCall(uid)
    \/ \E uid \in UIDs : ShutdownParam(uid)
    \/ \E uid \in UIDs : ShutdownReturn(uid)

PolicyActions ==
    \/ /\ ~policy.constructed
       /\ \E wg \in PercentValues, wc \in PercentValues, cg \in PercentValues,
             cc \in PercentValues, ag \in PercentValues, ac \in PercentValues :
                PolicyNew(wg, wc, cg, cc, ag, ac)
    \/ /\ policy.constructed
       /\ \E name \in Accessors : PolicyRead(name)
    \/ /\ policy.constructed
       /\ \E field \in {"w_gpu_percent", "act_cpu_percent", "gpu_batch_size"},
             value \in {0, Hundred} : PolicyAssign(field, value)

DescriptorActions ==
    \E batch_size \in 0..(MaxOf(BatchSizes) + 2), max_length \in 0..(2 * MaxLength) :
        DescriptorsCall(batch_size, max_length)

Next == PoolActions \/ MergedActions \/ StepActions \/ CacheActions
Spec == Init /\ [][Next]_vars

\* the pools and merge_inference_pools_inplace alone
NextPools == PoolActions
SpecPools == Init /\ [][NextPools]_vars

\* merged steps on the pool the server merges once, at start-up
NextMerged ==
    \/ /\ merged_pool = 0
       /\ \E mapping \in Mappings : MergeCall(mapping)
    \/ MergeStep
    \/ MergeReturn
    \/ MergedActions
    \/ StepChunk
    \/ StepFinish
SpecMerged == Init /\ [][NextMerged]_vars

\* inference steps of single backends, short and long inputs
NextStep == StepActions
SpecStep == Init /\ [][NextStep]_vars
\* inference steps of a thread that is never stopped for good: the loop body
\* and the statements after the loop are straight-line code.  The requests have
\* every length and batch size; they carry no hypo_ids and no prefix.
NextStepFair ==
    \/ /\ ipc = "idle"
       /\ mpc = "idle"
       /\ \E uid \in UIDs, hs \in Requests(Lens, Seeds) : StepCall(uid, hs, <<>>, 0)
    \/ StepChunk
    \/ StepFinish
    \/ StepReturn
SpecStepFair == Init /\ [][NextStepFair]_vars /\ WF_vars(StepChunk) /\ WF_vars(StepFinish)

\* the cache helpers and short inference steps of the session
NextCache == CacheActions
SpecCache == Init /\ [][NextCache]_vars

\* forward and backward calls between the steps of a session and the starts
\* of the pools
NextTrain ==
    \/ TrainActions
    \/ SessionActions
    \/ \E pid \in 1..Len(pools) : PoolStart(pid)
SpecTrain == Init /\ [][NextTrain]_vars

\* shutdown of backends of every weight layout, before and after the merge of
\* their inference pools, with pools started or not
NextShutdown ==
    \/ ShutdownActions
    \/ /\ \A u \in UIDs : spc[u] = "idle"
       /\ \E mapping \in Mappings : MergeCall(mapping)
    \/ MergeStep
    \/ MergeReturn
    \/ \E uid \in UIDs :
            /\ backends[uid].inference_pool # 0
            /\ PoolStart(backends[uid].inference_pool)
SpecShutdown == InitOf({16}, {DefaultConfig}, Layouts) /\ [][NextShutdown]_vars

\* the placement policy: construction, reads of its accessors, assignments
NextPolicy == PolicyActions
SpecPolicy == InitOf({16}, {DefaultConfig}, {DefaultLayout}) /\ [][NextPolicy]_vars

\* get_inference_cache_descriptors on backends of every model configuration
NextDescriptors == DescriptorActions
SpecDescriptors ==
    InitOf(ChunkBudgets, Configs, {DefaultLayout}) /\ [][NextDescriptors]_vars

\* a merged step invoked twice with the same inputs, the session's cache
\* written in between
NextRepeat ==
    \/ /\ merged_pool = 0
       /\ \E mapping \in Mappings : MergeCall(mapping)
    \/ MergeStep
    \/ MergeReturn
    \/ /\ mpc = "idle"
       /\ ipc = "idle"
       /\ ~m_prev.kept
       /\ \E fn \in 1..Len(pools), hs \in Requests(ShortLens, {0}) :
            \E hypo \in {<<>>, Reversed(BatchOf(hs))},
               infos \in SeqsUpTo(Infos, MaxBlocks),
               prompts \in SeqsUpTo(Prompts(BatchOf(hs)), MaxBlocks) :
                   MergedCall(fn, hs, hypo, infos, prompts)
    \/ MergedEndKept
    \/ /\ m_prev.kept
       /\ mpc = "idle"
       /\ cache_ops = 0
       /\ CacheUpdate(NewKVs(1, 1), 0)
    \/ MergedRepeat
    \/ MergedAssert
    \/ MergedEnterBlock
    \/ MergedBlockReturn
    \/ MergedBlockRaise
    \/ MergedReturn
    \/ StepChunk
    \/ StepFinish
SpecRepeat == InitOf({16}, {DefaultConfig}, {DefaultLayout}) /\ [][NextRepeat]_vars

\* the task pools of the backends: started, sent tasks, shut down
TaskPoolActions ==
    \/ \E pid \in TaskPoolIds : PoolStart(pid)
    \/ \E input \in TaskInputs : SubmitTask(input[1], input[2], input[3])
    \/ \E pid \in TaskPoolIds : FormBatch(pid)
    \/ \E pid \in TaskPoolIds, outcome \in ExecutorOutcomes : FinishBatch(pid, outcome)
    \/ \E pid \in TaskPoolIds : PoolShutdown(pid)
NextTaskPools == TaskPoolActions
SpecTaskPools == InitOf({16}, {DefaultConfig}, {DefaultLayout}) /\ [][NextTaskPools]_vars
\* scheduling loops that are never stopped for good: a loop that can form a
\* batch does, and the function it called returns or raises.  The tasks are
\* a small and a large inference task and a forward task.
FairTaskInputs ==
    {<<InitBackends[UidSeq[1]].inference_pool, 1, 1>>,
     <<InitBackends[UidSeq[1]].inference_pool, 5, 2>>,
     <<InitBackends[UidSeq[2]].forward_pool, 1, 1>>}
NextTaskPoolsFair ==
    \/ \E pid \in TaskPoolIds : PoolStart(pid)
    \/ \E input \in FairTaskInputs : SubmitTask(input[1], input[2], input[3])
    \/ \E pid \in TaskPoolIds : FormBatch(pid)
    \/ \E pid \in TaskPoolIds, outcome \in ExecutorOutcomes : FinishBatch(pid, outcome)
    \/ \E pid \in TaskPoolIds : PoolShutdown(pid)
SpecTaskPoolsFair ==
    /\ InitOf({16}, {DefaultConfig}, {DefaultLayout})
    /\ [][NextTaskPoolsFair]_vars
    /\ \A pid \in TaskPoolIds :
            /\ WF_vars(FormBatch(pid))
            /\ WF_vars(\E outcome \in ExecutorOutcomes : FinishBatch(pid, outcome))

\* the cache allocator and its concurrent callers
AllocatorActions ==
    \/ \E size \in RequestSizes, timeout \in Timeouts : AllocateCall(size, timeout)
    \/ \E c \in 1..Len(calls) : AllocateWake(c)
    \/ \E c \in 1..Len(calls) : AllocateExpire(c)
    \/ \E h \in 1..Len(handles) : Release(h)
NextAllocator == AllocatorActions
SpecAllocator == Init /\ [][NextAllocator]_vars

\* _estimate_max_chunk_length on backends of every byte ceiling
NextEstimate == EstimateActions
SpecEstimate ==
    InitOf(EstimateBudgets, {DefaultConfig}, {DefaultLayout}) /\ [][NextEstimate]_vars

\* ------------------------------------------------------------------ claims
Inject(hs, prompt) == IF prompt = NoPrompt THEN hs ELSE AddPrompt(hs, prompt)
PrevOutput(k) == IF k = 1 THEN caller_input ELSE m_log[k - 1].output

\* C1: in a merged step the inference_step calls are one per metadata entry, in
\* sequence order and one at a time; the input of each call is the output of the
\* call before it (the caller's tensor for the first) with the entry's prompt
\* added, and the output of the last call is returned exactly once.
C1_MergedPipeline ==
    /\ m_returns <= 1
    /\ Len(m_log) <= Len(inference_infos)
    /\ \A k \in 1..Len(m_log) :
         /\ m_log[k].uid = inference_infos[k].uid
         /\ m_log[k].input = Inject(PrevOutput(k), optional_prompts[k])
    /\ ipc # "idle" =>
         /\ mpc = "in_block"
         /\ Len(m_log) = m_idx - 1
         /\ self_uid = inference_infos[m_idx].uid
         /\ hidden_states = Inject(PrevOutput(m_idx), optional_prompts[m_idx])
    /\ mpc = "loop" => Len(m_log) = m_idx - 1
    /\ mpc = "done" =>
         /\ Len(m_log) = Len(inference_infos)
         /\ m_returns = 1
         /\ m_result = PrevOutput(Len(inference_infos) + 1)
    /\ mpc # "done" => m_returns = 0
C1_Witness ==
    /\ mpc = "done"
    /\ Len(m_log) = 2
    /\ m_log[1].uid # m_log[2].uid
    /\ optional_prompts[2] # NoPrompt
    /\ m_result # caller_input

\* C2: a merged step whose metadata and prompt counts differ fails on the
\* assertion with no inference_step invoked and hidden_states untouched.
C2_ArityMismatchFailsFirst ==
    (mpc # "idle" /\ Len(inference_infos) # Len(optional_prompts)) =>
        /\ mpc \in {"assert", "raised"}
        /\ mpc = "raised" => m_error = "AssertionError"
        /\ ipc = "idle"
        /\ m_log = <<>>
        /\ m_returns = 0
        /\ m_hidden_states = caller_input
        /\ caller_hidden = caller_input
C2_Witness ==
    /\ mpc = "raised"
    /\ Len(inference_infos) = 2
    /\ Len(optional_prompts) = 1
    /\ optional_prompts[1] # NoPrompt

\* C3: after merge_inference_pools_inplace has returned, every backend of the
\* mapping holds the one merged pool as its inference_pool, that pool runs the
\* merged step over exactly the mapping, and the forward and backward pools of
\* the backends are the ones they had; it fails only on an empty mapping or on
\* a started inference pool.
C3_MergeReplacesInferencePools ==
    /\ gpc = "done" =>
         /\ Len(g_backends) > 0
         /\ pools[merged_pool].fn = "merged"
         /\ pools[merged_pool].uids = g_backends
         /\ \A k \in 1..Len(g_backends) :
              LET b == g_backends[k]
              IN  /\ backends[b].inference_pool = merged_pool
                  /\ backends[b].forward_pool = pools_at_merge[b].forward_pool
                  /\ backends[b].backward_pool = pools_at_merge[b].backward_pool
                  /\ pools[backends[b].forward_pool].fn = "forward"
                  /\ pools[backends[b].backward_pool].fn = "backward"
    /\ gpc = "raised" =>
         \/ Len(g_backends) = 0
         \/ \E k \in 1..Len(g_backends) : pools[backends[g_backends[k]].inference_pool].alive
C3_Witness ==
    /\ gpc = "done"
    /\ Len(g_backends) = 2
    /\ backends[g_backends[1]].inference_pool = backends[g_backends[2]].inference_pool
    /\ pools_at_merge[g_backends[1]].inference_pool # pools_at_merge[g_backends[2]].inference_pool

\* the chunk ranges of an activation, as <<start_idx, end_idx>> half-open
RangeLen(rg) == rg[2] - rg[1]

\* C4: for a length L >= 1 the chunks inference_step processes are non-empty,
\* contiguous ranges in ascending order that start at 0 and, at the return,
\* end at L; each chunk's output is the block's output on that range of the
\* input, and the returned tensor has length L with every chunk's output at
\* the positions of its range.
C4_ChunksPartitionInput ==
    (ipc \in {"loop", "returned"} /\ SeqLenOf(hidden_states) >= 1) =>
        /\ Len(output_chunks) = Len(chunk_ranges)
        /\ \A k \in 1..Len(chunk_ranges) :
             /\ chunk_ranges[k][1] = (IF k = 1 THEN 0 ELSE chunk_ranges[k - 1][2])
             /\ chunk_ranges[k][1] < chunk_ranges[k][2]
             /\ chunk_ranges[k][2] <= SeqLenOf(hidden_states)
             /\ output_chunks[k] =
                    BlockOutput(self_uid, NoPast(hidden_states),
                                [r \in 1..Len(hidden_states) |->
                                    SubSeq(hidden_states[r], chunk_ranges[k][1] + 1,
                                           chunk_ranges[k][2])])
        /\ ipc = "returned" =>
             /\ Len(chunk_ranges) >= 1
             /\ chunk_ranges[Len(chunk_ranges)][2] = SeqLenOf(hidden_states)
             /\ Len(output_hidden_states) = Len(hidden_states)
             /\ \A r \in 1..Len(hidden_states) :
                  /\ Len(output_hidden_states[r]) = SeqLenOf(hidden_states)
                  /\ \A k \in 1..Len(chunk_ranges) :
                       SubSeq(output_hidden_states[r], chunk_ranges[k][1] + 1,
                              chunk_ranges[k][2]) = output_chunks[k][r]
C4_Witness ==
    /\ ipc = "returned"
    /\ SeqLenOf(hidden_states) = 2 * chunk_size + 1
    /\ Len(chunk_ranges) = 3
    /\ BatchOf(hidden_states) = 2

\* C5: the output of inference_step, chunk by chunk, equals the output of the
\* block run once on the whole input.
C5_ChunkedEqualsUnchunked ==
    ipc = "returned" =>
        output_hidden_states = BlockOutput(self_uid, NoPast(hidden_states), hidden_states)

\* the cache entry at batch row b, head h, head_dim index d, position t (1-based)
\* of cache tensor k, whichever its layout
CacheAt(cache, k, b, h, d, t) ==
    IF k % 2 = 1 THEN cache[k][b][h][d][t] ELSE cache[k][b][h][t][d]
\* the same entry of new_kvs, whose first axis is batch * heads
NewAt(new_kvs, k, b, h, d, t) ==
    LET bh == (b - 1) * shard_num_heads[(k + 1) \div 2] + h
    IN  IF k % 2 = 1 THEN new_kvs[k][bh][d][t] ELSE new_kvs[k][bh][t][d]
CacheCells ==
    {c \in (1..(2 * NumShards)) \X (1..CacheBatch) \X (1..MaxOf(SeqRange(shard_num_heads)))
            \X (1..head_dim) \X (1..MaxLength) :
        c[3] <= shard_num_heads[(c[1] + 1) \div 2]}

\* C6: _update_cache_inplace with prefix length p and new length n,
\* p <= n <= max_length, does not raise, copies positions [p, n) of every new
\* key and value into the cache and leaves every other cache entry as it was.
C6_UpdateWritesOnlyNewPositions ==
    LET p == cache_op.prefix_length
        n == Len(cache_op.new_kvs[1][1][1])
    IN  (cache_op.op = "update" /\ p <= n /\ n <= MaxLength) =>
            /\ ~cache_op.raised
            /\ \A c \in CacheCells :
                 CacheAt(cache_tensors, c[1], c[2], c[3], c[4], c[5]) =
                    IF p < c[5] /\ c[5] <= n
                    THEN NewAt(cache_op.new_kvs, c[1], c[2], c[3], c[4], c[5])
                    ELSE CacheAt(cache_op.before, c[1], c[2], c[3], c[4], c[5])
C6_Witness ==
    /\ cache_op.op = "update"
    /\ cache_op.prefix_length = 1
    /\ Len(cache_op.new_kvs[1][1][1]) = 2
    /\ cache_tensors # cache_op.before
    /\ cache_ops = 2

\* the key/value entries the block computes for the positions of an input
StepKV(uid, hs, b, j) == NewKV(uid, hs[b][j])

\* C7: when a step with prefix_length p over k new positions returns, the
\* cache holds the key/value entries the block computed for them at positions
\* [p, p + k).
C7_StepAppendsToCache ==
    LET p == inference_info.prefix_length
        k == SeqLenOf(hidden_states)
    IN  (ipc = "returned" /\ BatchOf(hidden_states) = CacheBatch /\ p + k <= MaxLength) =>
            \A c \in CacheCells :
                (p < c[5] /\ c[5] <= p + k) =>
                    CacheAt(cache_tensors, c[1], c[2], c[3], c[4], c[5]) =
                        StepKV(self_uid, hidden_states, c[2], c[5] - p)

\* C8: with hypo_ids given and not the dummy, inference_step has reordered the
\* cache before it computes: row i of every cache tensor is the row that was at
\* hypo_ids[i] when the step was called.
C8_StepReordersCache ==
    (ipc \in {"loop", "returned"} /\ Len(hypo_ids) = CacheBatch) =>
        \A k \in 1..Len(cache_tensors), b \in 1..CacheBatch :
            cache_tensors[k][b] = cache_at_call[k][hypo_ids[b] + 1]

\* C9: _reorder_cache_inplace with the dummy hypo_ids touches no cache tensor
\* and leaves every cache tensor as it was.
C9_DummyReorderSkipped ==
    (cache_op.op = "reorder" /\ cache_op.hypo = <<>>) =>
        /\ cache_tensors = cache_op.before
        /\ cache_op.touched = {}
C9_Witness ==
    /\ cache_op.op = "reorder"
    /\ cache_op.hypo = <<>>
    /\ cache_ops = 2
    /\ cache_tensors # CachePattern(0)

\* the estimated memory of the whole input in one step
EstimatedStepBytes(hs, info) ==
    MaxOf(SeqRange(shard_num_heads)) * BatchOf(hs) * dtype_bytes
        * (info.prefix_length + SeqLenOf(hs)) * SeqLenOf(hs)

\* C10: when the estimated memory of the whole input exceeds
\* max_chunk_size_bytes, inference_step has split the input into more than one
\* chunk, and no chunk is longer than the estimated maximum chunk length.
C10_ChunksWithinBudget ==
    (ipc = "returned" /\ SeqLenOf(hidden_states) >= 1) =>
        /\ EstimatedStepBytes(hidden_states, inference_info) > max_chunk_size_bytes
                => Len(chunk_ranges) > 1
        /\ \A k \in 1..Len(chunk_ranges) :
             RangeLen(chunk_ranges[k]) <=
                estimate_max_chunk_length(hidden_states, inference_info)

\* C11: for a byte ceiling >= 0, a batch of at least one row and at least one
\* position in prefix plus input, the estimated maximum chunk length is an
\* integer >= 1: the largest number of positions whose cost fits the ceiling,
\* and 1 when not even one position fits.
C11_EstimateAtLeastOne ==
    (/\ est_call.called
     /\ max_chunk_size_bytes >= 0
     /\ est_call.batch_size >= 1
     /\ est_call.prefix_length + est_call.seq_length >= 1) =>
        LET cost == MaxOf(SeqRange(shard_num_heads)) * est_call.batch_size * dtype_bytes
                        * (est_call.prefix_length + est_call.seq_length)
            r == est_call.result
        IN  /\ est_call.error = None
            /\ r \in Nat
            /\ r >= 1
            /\ IF max_chunk_size_bytes < cost
               THEN r = 1
               ELSE r * cost <= max_chunk_size_bytes /\ max_chunk_size_bytes < (r + 1) * cost
C11_Witness ==
    /\ est_call.called
    /\ max_chunk_size_bytes = 16
    /\ est_call.batch_size = 2
    /\ est_call.prefix_length + est_call.seq_length = 3
    /\ est_call.result = 1

\* C12: a step of forward or backward (the call, the block's computation, the
\* return) leaves the session's attention cache, the pools and the backends'
\* pool references as they were, whatever the session did before or does after.
C12_TrainLeavesCacheAndPools ==
    [][(tpc' # tpc) =>
            /\ cache_tensors' = cache_tensors
            /\ pools' = pools
            /\ backends' = backends]_vars
C12_Witness ==
    /\ tpc = "returning"
    /\ t_call.uid = "block1"
    /\ t_outputs # NoTensor
    /\ cache_ops = 1
    /\ cache_tensors # CachePattern(0)
    /\ \E pid \in 1..Len(pools) : pools[pid].alive

\* C13: shutdown never raises, and whenever a backend has returned from one or
\* more shutdown calls its three pool references are cleared, none of its
\* weights is on the accelerator, and its state is the state it had after the
\* first call.
C13_ShutdownIdempotent ==
    \A uid \in UIDs :
        /\ spc[uid] # "raised"
        /\ (shutdowns[uid] >= 1 /\ spc[uid] = "idle") =>
                /\ backends[uid] = NoPools
                /\ \A k \in 1..Len(params[uid]) : params[uid][k].device # "cuda"
                /\ [pools |-> backends[uid], params |-> params[uid]] = after_first[uid]
C13_Witness ==
    /\ shutdowns["block0"] = 2
    /\ spc["block0"] = "idle"
    /\ gpc = "done"
    /\ g_backends = <<"block0", "block1">>
    /\ pools[merged_pool].alive
    /\ after_first["block0"].params[1].device = "cpu"

\* C14: when shutdown releases a weight of a backend, none of the pools bound
\* to the backend is running, and the backend's references to its pools have
\* been cleared.
C14_PoolsStoppedBeforeRelease ==
    \A uid \in UIDs :
        /\ released_alive[uid] = {}
        /\ (\E k \in 1..Len(params[uid]) : params[uid][k].data = "empty") =>
                backends[uid] = NoPools

\* the GPU and the CPU percentage behind a derived disk percentage
GpuOf(self, name) ==
    CASE name = "w_disk_percent" -> self.w_gpu_percent
      [] name = "cache_disk_percent" -> self.cache_gpu_percent
      [] name = "act_disk_percent" -> self.act_gpu_percent
CpuOf(self, name) ==
    CASE name = "w_disk_percent" -> self.w_cpu_percent
      [] name = "cache_disk_percent" -> self.cache_cpu_percent
      [] name = "act_disk_percent" -> self.act_cpu_percent
DiskAccessors == {"w_disk_percent", "cache_disk_percent", "act_disk_percent"}
IsInteger(n) == n % FloatScale = 0

\* C15 as stated: for every policy and each of weight, cache and activation,
\* the derived disk percentage is 100 - gpu - cpu, and gpu + cpu + disk == 100.
C15_DiskPercentSumsTo100 ==
    (policy_op.op = "read" /\ policy_op.field \in DiskAccessors) =>
        LET g == GpuOf(policy, policy_op.field)
            c == CpuOf(policy, policy_op.field)
        IN  /\ policy_op.result = FloatSub(FloatSub(Hundred, g), c)
            /\ FloatAdd(FloatAdd(g, c), policy_op.result) = Hundred

\* C15 amended: for every policy and each of weight, cache and activation, the
\* derived disk percentage is the float that 100 - gpu - cpu evaluates to; when
\* the GPU and the CPU percentage are integers it is exactly 100 - gpu - cpu,
\* and gpu + cpu + disk == 100.
C15_DiskPercentOfIntegers ==
    (policy_op.op = "read" /\ policy_op.field \in DiskAccessors) =>
        LET g == GpuOf(policy, policy_op.field)
            c == CpuOf(policy, policy_op.field)
        IN  /\ IsFloat(policy_op.result)
            /\ (IsInteger(g) /\ IsInteger(c)) =>
                    /\ policy_op.result = Hundred - g - c
                    /\ FloatAdd(FloatAdd(g, c), policy_op.result) = Hundred
C15_Witness ==
    /\ policy_op.op = "read"
    /\ policy_op.field = "cache_disk_percent"
    /\ policy.cache_gpu_percent = Hundred
    /\ policy.cache_cpu_percent = 0
    /\ policy_op.result = 0
    /\ policy.w_gpu_percent = 2

\* C16: every policy that has been constructed has, for each of weight, cache
\* and activation, its GPU, CPU and derived disk percentage within [0, 100] and
\* GPU plus CPU at most 100.
C16_PercentagesInRange ==
    policy.constructed =>
        \A name \in DiskAccessors :
            LET g == GpuOf(policy, name)
                c == CpuOf(policy, name)
                d == ReadAccessor(policy, name)
            IN  /\ 0 <= g /\ g <= Hundred
                /\ 0 <= c /\ c <= Hundred
                /\ 0 <= d /\ d <= Hundred
                /\ FloatAdd(g, c) <= Hundred

\* C17: reading an accessor of a policy or assigning to one of its fields
\* leaves every field as it was, and the assignment fails.
C17_PolicyReadOnly ==
    /\ policy_op.op # "none" => policy = policy_op.before
    /\ policy_op.op = "assign" => policy_op.error = "FrozenInstanceError"
    /\ policy_op.op = "read" => policy_op.error = None
C17_Witness ==
    /\ policy_op.op = "assign"
    /\ policy_op.field = "w_gpu_percent"
    /\ policy_op.result = 0
    /\ policy.w_gpu_percent = Hundred
    /\ policy_ops = 2

\* C18: the cache descriptors are two per device shard: at list index 2s
\* (0-based) the key of shard s, shaped (batch, heads, head_dim, max_length),
\* and right after it the value of the same device, head count and element
\* type, shaped (batch, heads, max_length, head_dim).
C18_DescriptorsInPairs ==
    descr_call.called =>
        LET d == descr_call.result
            b == descr_call.batch_size
            l == descr_call.max_length
        IN  /\ Len(d) = 2 * Len(ModuleDevices)
            /\ \A sh \in 1..Len(ModuleDevices) :
                    LET key == d[2 * sh - 1]
                        value == d[2 * sh]
                    IN  /\ key.device = ModuleDevices[sh]
                        /\ value.device = key.device
                        /\ value.dtype = key.dtype
                        /\ Len(key.shape) = 4 /\ Len(value.shape) = 4
                        /\ value.shape[2] = key.shape[2]
                        /\ key.shape = <<b, key.shape[2], head_dim, l>>
                        /\ value.shape = <<b, key.shape[2], l, head_dim>>
C18_Witness ==
    /\ descr_call.called
    /\ descr_call.batch_size = 2
    /\ descr_call.max_length = 3
    /\ config.has_num_key_value_heads
    /\ Len(descr_call.result) = 4
    /\ descr_call.result[3].shape = <<2, 1, 2, 3>>

C20_PromptInjectionFrame ==
    [][(mpc = "loop" /\ mpc' = "in_block") =>
            LET prompt == optional_prompts[m_idx]
                before == IF m_idx = 1 THEN caller_input ELSE m_log[m_idx - 1].output
                P == IF prompt = NoPrompt THEN 0 ELSE SeqLenOf(prompt)
            IN  /\ m_hidden_states = before
                /\ BatchOf(hidden_states') = BatchOf(before)
                /\ \A r \in 1..BatchOf(before) :
                        /\ Len(hidden_states'[r]) = Len(before[r])
                        /\ \A j \in 1..Len(before[r]) :
                                hidden_states'[r][j] =
                                    IF j <= P THEN (before[r][j] + prompt[r][j]) % Modulus
                                    ELSE before[r][j]
                /\ output_chunks' = <<>>
                /\ m_log' = m_log]_vars
C20_Witness ==
    /\ mpc = "in_block"
    /\ ipc = "loop"
    /\ output_chunks = <<>>
    /\ m_idx = 2
    /\ Len(m_log) = 1
    /\ optional_prompts[2] # NoPrompt
    /\ optional_prompts[1] = NoPrompt
    /\ SeqLenOf(optional_prompts[2]) < SeqLenOf(hidden_states)

\* C27: in a merged step the backend run for the i-th metadata entry is the
\* backend the merged mapping holds under that entry's uid: every block that
\* has run, and the block that is running, has the uid of its entry and is a
\* key of the mapping; when an entry's uid is not a key the step has failed
\* with KeyError at that entry, no block is running in its place, and exactly
\* the blocks of the entries before it have run.
C27_MergedStepInvokesRegisteredBackend ==
    mpc # "idle" =>
        /\ \A k \in 1..Len(m_log) :
                /\ m_log[k].uid = inference_infos[k].uid
                /\ m_log[k].uid \in SeqRange(pools[m_fn].uids)
        /\ mpc = "in_block" =>
                /\ self_uid = inference_infos[m_idx].uid
                /\ self_uid \in SeqRange(pools[m_fn].uids)
                /\ Len(m_log) = m_idx - 1
        /\ (mpc = "loop" /\ m_idx <= Len(inference_infos) + 1) => Len(m_log) = m_idx - 1
        /\ m_error = "KeyError" =>
                /\ mpc = "raised"
                /\ inference_infos[m_idx].uid \notin SeqRange(pools[m_fn].uids)
                /\ Len(m_log) = m_idx - 1
                /\ ipc = "idle"
C27_Witness ==
    /\ mpc = "raised"
    /\ m_error = "KeyError"
    /\ m_idx = 2
    /\ Len(m_log) = 1
    /\ m_log[1].uid = inference_infos[1].uid

\* C28: merge_inference_pools_inplace is all-or-nothing with respect to its
\* precondition: when it was called on an empty mapping, or on a mapping with
\* a backend whose inference pool was alive at the call, the call does not
\* return normally, and once it has failed every backend holds the pools it
\* held at the call.
MergePreconditionBroken ==
    \/ Len(g_backends) = 0
    \/ \E k \in 1..Len(g_backends) :
            pools_at_merge[g_backends[k]].inference_pool \in alive_at_merge
C28_MergeAllOrNothing ==
    MergePreconditionBroken =>
        /\ gpc # "done"
        /\ gpc = "raised" => backends = pools_at_merge

\* C29: the merged step does not modify the hidden_states value supplied by
\* the caller: when the step has returned, the tensor the caller passed holds
\* the values it held at the call.
C29_MergedStepKeepsCallerInput ==
    mpc = "done" => caller_hidden = caller_input

\* C30: for every input of sequence length L >= 1 inference_step terminates
\* after exactly ceil(L / chunk_size) invocations of the block module, one per
\* chunk and one after the other, never on an empty chunk, and returns a
\* result: a running step never raises, has made at most ceil(L / chunk_size)
\* invocations, each on a non-empty range that starts where the one before
\* ended; a step that has returned has made exactly that many and holds a
\* result of L positions; and every running step eventually returns.
CeilDiv(a, b) == CHOOSE n \in 0..a : n * b >= a /\ (n - 1) * b < a
StepInvocationsBounded ==
    (ipc # "idle" /\ SeqLenOf(hidden_states) >= 1) =>
        LET L == SeqLenOf(hidden_states)
        IN  /\ ipc # "raised"
            /\ Len(chunk_ranges) <= CeilDiv(L, chunk_size)
            /\ Len(output_chunks) = Len(chunk_ranges)
            /\ \A k \in 1..Len(chunk_ranges) :
                    /\ chunk_ranges[k][1] < chunk_ranges[k][2]
                    /\ chunk_ranges[k][1] = (k - 1) * chunk_size
            /\ ipc = "returned" =>
                    /\ Len(chunk_ranges) = CeilDiv(L, chunk_size)
                    /\ BatchOf(output_hidden_states) = BatchOf(hidden_states)
                    /\ SeqLenOf(output_hidden_states) = L
C30_StepTerminates ==
    /\ []StepInvocationsBounded
    /\ (ipc = "loop" /\ SeqLenOf(hidden_states) >= 1) ~> (ipc = "returned")
C30_Witness ==
    /\ ipc = "returned"
    /\ SeqLenOf(hidden_states) = chunk_size
    /\ Len(chunk_ranges) = 1
    /\ chunk_ranges[1] = <<0, chunk_size>>

\* the tasks that were pending in the pool of batch b when it was formed
PendingAt(b) ==
    {k \in 1..Len(tasks) :
        /\ tasks[k].pool = batches[b].pool
        /\ tasks[k].state # "rejected"
        /\ tasks[k].arrival < batches[b].at
        /\ \A c \in 1..(b - 1) : k \notin SeqRange(batches[c].tasks)}
\* task u of PendingAt(b) is dispatched no later than the j-th task of batch b,
\* and not after it
DispatchedAhead(b, j, u) == \E h \in 1..(j - 1) : batches[b].tasks[h] = u

WaitedOut(k, b) == batches[b].at - tasks[k].arrival > starvation_horizon
PriorityAt(k, b) == IF WaitedOut(k, b) THEN TopPriority ELSE tasks[k].priority
RECURSIVE BatchSize(_)
BatchSize(ids) == IF ids = <<>> THEN 0 ELSE BatchOf(tasks[Head(ids)].args) + BatchSize(Tail(ids))
Resolved(k) == tasks[k].state \in {"done", "failed"}
\* three tasks of one priority and one row each, all sent to the pool before
\* its first batch was formed
ThreeEqualTasks(pid) ==
    /\ Len(tasks) = 3
    /\ Len(batches) >= 1
    /\ \A k \in 1..3 :
            /\ tasks[k].pool = pid
            /\ tasks[k].priority = tasks[1].priority
            /\ BatchOf(tasks[k].args) = 1
            /\ tasks[k].arrival < batches[1].at

\* C22: every batch a pool dispatches holds only tasks of that pool's
\* operation and has a total size of at most max_batch_size, the
\* max_batch_size the backend was built with; with max_batch_size = 2 and
\* three pending tasks of equal priority exactly two batches are dispatched,
\* the two earliest arrivals and then the third task alone; and every task
\* that was resolved with a result holds, once, the output of its own rows.
C22_BatchesBoundedAndSliced ==
    /\ \A b \in 1..Len(batches) :
            LET pid == batches[b].pool
            IN  /\ batches[b].tasks # <<>>
                /\ \A j \in 1..Len(batches[b].tasks) :
                        pools[tasks[batches[b].tasks[j]].pool].fn = pools[pid].fn
                /\ BatchSize(batches[b].tasks) <= pools[pid].max_batch_size
                /\ pools[pid].max_batch_size = MaxBatchSizeOf(pools[pid].uids[1])
    /\ \A pid \in TaskPoolIds :
            (pools[pid].max_batch_size = 2 /\ ThreeEqualTasks(pid)) =>
                /\ Len(batches) <= 2
                /\ batches[1].tasks = <<1, 2>>
                /\ Len(batches) = 2 => batches[2].tasks = <<3>>
                /\ (\A k \in 1..3 : Resolved(k)) => Len(batches) = 2
    /\ \A k \in 1..Len(tasks) :
            tasks[k].state = "done" =>
                /\ tasks[k].result = ExecutorOutput(tasks[k].pool, tasks[k].args)
                /\ tasks[k].resolutions = 1
C22_Witness ==
    /\ ThreeEqualTasks(InitBackends[UidSeq[1]].inference_pool)
    /\ pools[InitBackends[UidSeq[1]].inference_pool].max_batch_size = 2
    /\ \A k \in 1..3 : tasks[k].state = "done"
    /\ Len(batches) = 2
    /\ batches[2].tasks = <<3>>
    /\ tasks[1].result # tasks[2].result

\* C23: a batch fails atomically: once the pool's function has raised on a
\* batch, every task of the batch has its future resolved, once, with the
\* exception of that batch, and none of them holds a result.
C23_BatchFailsAtomically ==
    \A b \in 1..Len(batches) :
        batches[b].outcome \notin {"running", "ok"} =>
            \A j \in 1..Len(batches[b].tasks) :
                LET k == batches[b].tasks[j]
                IN  /\ tasks[k].state = "failed"
                    /\ tasks[k].error = [kind |-> batches[b].outcome, batch |-> b]
                    /\ tasks[k].error = tasks[batches[b].tasks[1]].error
                    /\ tasks[k].result = NoTensor
                    /\ tasks[k].resolutions = 1
C23_Witness ==
    \E b \in 1..Len(batches) :
        /\ batches[b].outcome = "RuntimeError"
        /\ Len(batches[b].tasks) = 2
        /\ \A j \in 1..2 : tasks[batches[b].tasks[j]].state = "failed"
        /\ tasks[batches[b].tasks[1]].error = tasks[batches[b].tasks[2]].error
        /\ \E c \in 1..Len(batches) : batches[c].outcome = "ok"

\* the function of the pool has raised on one of its batches
RaisedBefore(pid) ==
    \E b \in 1..Len(batches) :
        batches[b].pool = pid /\ batches[b].outcome \notin {"running", "ok"}
\* C24: a failure of its function does not stop a pool's scheduling loop: a
\* task that is pending in a pool that is alive and not shut down, after a
\* batch of the pool has raised, is eventually dispatched and its future
\* resolved, unless the pool is shut down first.
C24_LoopSurvivesFailure ==
    \A k \in 1..MaxTasks :
        (/\ Len(tasks) >= k
         /\ tasks[k].state = "pending"
         /\ RaisedBefore(tasks[k].pool)
         /\ tasks[k].pool \notin closed)
            ~> (/\ Len(tasks) >= k
                /\ \/ tasks[k].state \in {"done", "failed"}
                   \/ tasks[k].pool \in closed)
C24_Witness ==
    \E b \in 1..Len(batches), k \in 1..Len(tasks) :
        /\ batches[b].outcome = "RuntimeError"
        /\ tasks[k].pool = batches[b].pool
        /\ tasks[k].arrival > batches[b].at
        /\ tasks[k].state = "done"
        /\ tasks[k].pool \notin closed

RECURSIVE ReservedIn(_, _)
ReservedIn(tier, n) ==
    IF n = 0 THEN 0
    ELSE ReservedIn(tier, n - 1) + (IF handles[n].live THEN handles[n].regions[tier] ELSE 0)
\* C25: whatever allocate and release calls were made, failed and timed-out
\* allocations and waiting callers included, the memory reserved in a tier
\* never exceeds the tier's capacity, the free space of a tier is its capacity
\* less what the live handles hold in it, and once every handle issued has been
\* released the free space of every tier is its initial capacity.
C25_ArenaConserved ==
    \A tier \in Tiers :
        /\ ReservedIn(tier, Len(handles)) <= Capacity[tier]
        /\ free[tier] = Capacity[tier] - ReservedIn(tier, Len(handles))
        /\ (\A h \in 1..Len(handles) : ~handles[h].live) => free[tier] = Capacity[tier]
C25_Witness ==
    /\ Len(handles) = 2
    /\ \A h \in 1..2 : ~handles[h].live
    /\ \E c \in 1..Len(calls) : calls[c].state = "AllocationTimeout"
    /\ \E c \in 1..Len(calls) : calls[c].state = "ok" /\ calls[c].timeout = 1 /\ calls[c].handle = 2
    /\ free = Capacity

\* C26: allocate is all-or-nothing: a step in which a call fails with
\* AllocationTimeout, or starts to wait, leaves the free space of every tier
\* and the handles as they were, and no step of an allocate call changes a
\* handle that exists (none is evicted or made smaller).
C26_AllocateAllOrNothing ==
    [][calls' # calls =>
            /\ \A c \in 1..Len(calls') :
                    (/\ calls'[c].state \in {"AllocationTimeout", "waiting", "CapacityExceeded"}
                     /\ (c > Len(calls) \/ calls[c].state # calls'[c].state)) =>
                        /\ free' = free
                        /\ handles' = handles
            /\ \A h \in 1..Len(handles) : handles'[h] = handles[h]]_vars
C26_Witness ==
    /\ \A tier \in Tiers : free[tier] = 0
    /\ \E h \in 1..Len(handles) : handles[h].live
    /\ \E c \in 1..Len(calls) : calls[c].state = "AllocationTimeout" /\ calls[c].timeout = 0

====
